---- MODULE Spec2Model ----
(***************************************************************************)
(* A model of the agent routing and orchestration core of SuperAgent:      *)
(* backend/agents/super_agent.py (classification, planning, execution of a *)
(* tool sequence, top-level retry and fallback), the tool registry of      *)
(* backend/agents/shared_tools.py and the generate streams of the agents   *)
(* the orchestrator delegates to.                                          *)
(*                                                                         *)
(* Text that the program parses (LLM responses) is modelled as a sequence  *)
(* of lexical tokens, and json.loads and the regular expressions of the    *)
(* source are computed on those tokens.  Numbers that are fractions in the *)
(* source (confidences) are kept in hundredths: 0.5 is 50.                 *)
(***************************************************************************)
EXTENDS Integers, Sequences, FiniteSets, TLC

VARIABLES
    specialized_agents, \* keys of SuperAgent.specialized_agents
    memory,             \* rows of the agent_memory table, oldest first
    op,                 \* the operation in progress / last completed
    call_in,            \* inputs of the last call of a single-call operation
    ret,                \* what the last call returned: [exc, val]
    trace,              \* orchestrator-level events of the current call, in order
    ncalls,             \* number of calls made so far
    tool_registry,      \* ToolRegistry._tools: registry key -> descriptor
    pc,                 \* where the running generator stands
    tool_sequence,      \* _execute_tool_sequence: the steps (Python values)
    content_type,       \* the category of the run
    step_index,         \* the steps the loop has gone through
    accumulated_result, \* result carried forward
    step_outputs,       \* step index -> recorded result
    tools_used,         \* SuperAgent.tools_used
    out,                \* the chunks the generator has yielded, in order
    attempt,            \* generate: the loop variable of the retry loop
    delegations,        \* the agent generate calls made: agent and its stream (history)
    confidence_score,   \* BaseAgent.confidence_score of each agent, in hundredths
    writers,            \* the calls of _update_memory in flight: position and locals
    generated_content,  \* rows of the generated_content table, oldest first
    accumulated_content \* routes.py generate(): the content forwarded so far

vars == <<specialized_agents, memory, op, call_in, ret, trace, ncalls, tool_registry,
          pc, tool_sequence, content_type, step_index, accumulated_result,
          step_outputs, tools_used, out, attempt, delegations, confidence_score,
          writers, generated_content, accumulated_content>>

\* the variables of a run of generate and of _execute_tool_sequence
exec_vars == <<pc, tool_sequence, content_type, step_index, accumulated_result,
               step_outputs, tools_used, out, attempt, delegations>>

-----------------------------------------------------------------------------
(* Bounds of the model *)

\* calls of one operation explored in one behaviour
MaxCalls == 1

-----------------------------------------------------------------------------
(* Lexical tokens of a text and Python values *)

Tk(kind) == [k |-> kind, s |-> "", n |-> 0]
DS(str) == [k |-> "dstr", s |-> str, n |-> 0]   \* "str"
SS(str) == [k |-> "sstr", s |-> str, n |-> 0]   \* 'str'
NumTok(num) == [k |-> "num", s |-> "", n |-> num]
Word(str) == [k |-> "word", s |-> str, n |-> 0]  \* prose outside any literal
LBracket == Tk("[")
RBracket == Tk("]")
LBrace == Tk("{")
RBrace == Tk("}")
Comma == Tk(",")
Colon == Tk(":")
WS == Tk("ws")                 \* a run of whitespace
NullTok == Tk("null")
FenceJson == Tk("fence_json")  \* the markdown fence opening a json block
Fence == Tk("fence")            \* a bare markdown fence

EmptyFields == <<>>
VNone == [ty |-> "none", s |-> "", n |-> 0, items |-> <<>>, fields |-> EmptyFields]
VStr(str) == [ty |-> "str", s |-> str, n |-> 0, items |-> <<>>, fields |-> EmptyFields]
VNum(num) == [ty |-> "num", s |-> "", n |-> num, items |-> <<>>, fields |-> EmptyFields]
VList(xs) == [ty |-> "list", s |-> "", n |-> 0, items |-> xs, fields |-> EmptyFields]
VDict(f) == [ty |-> "dict", s |-> "", n |-> 0, items |-> <<>>, fields |-> f]

HasKey(v, key) == v.ty = "dict" /\ key \in DOMAIN v.fields

\* Python truthiness of a value
Truthy(v) ==
    CASE v.ty = "none" -> FALSE
      [] v.ty = "str" -> v.s # ""
      [] v.ty = "num" -> v.n # 0
      [] v.ty = "list" -> v.items # <<>>
      [] v.ty = "dict" -> DOMAIN v.fields # {}
      [] OTHER -> TRUE

\* str.lower() on the strings the model uses
Lower(str) ==
    CASE str = "Thesis" -> "thesis"
      [] str = "TWITTER" -> "twitter"
      [] OTHER -> str

-----------------------------------------------------------------------------
(* json.loads on a token sequence *)

RECURSIVE Skip(_, _)
\* index of the first token at or after i that is not whitespace
Skip(t, i) == IF i <= Len(t) /\ t[i].k = "ws" THEN Skip(t, i + 1) ELSE i

ParseFail == [ok |-> FALSE, v |-> VNone, j |-> 0]

RECURSIVE ParseValue(_, _)
RECURSIVE ParseElems(_, _, _)
RECURSIVE ParseMembers(_, _, _)

ParseValue(t, i0) ==
    LET i == Skip(t, i0) IN
    IF i > Len(t) THEN ParseFail
    ELSE CASE t[i].k = "dstr" -> [ok |-> TRUE, v |-> VStr(t[i].s), j |-> i + 1]
           [] t[i].k = "num" -> [ok |-> TRUE, v |-> VNum(t[i].n), j |-> i + 1]
           [] t[i].k = "null" -> [ok |-> TRUE, v |-> VNone, j |-> i + 1]
           [] t[i].k = "[" ->
                LET j == Skip(t, i + 1) IN
                IF j <= Len(t) /\ t[j].k = "]"
                THEN [ok |-> TRUE, v |-> VList(<<>>), j |-> j + 1]
                ELSE ParseElems(t, j, <<>>)
           [] t[i].k = "{" ->
                LET j == Skip(t, i + 1) IN
                IF j <= Len(t) /\ t[j].k = "}"
                THEN [ok |-> TRUE, v |-> VDict(EmptyFields), j |-> j + 1]
                ELSE ParseMembers(t, j, EmptyFields)
           [] OTHER -> ParseFail

ParseElems(t, i, acc) ==
    LET r == ParseValue(t, i) IN
    IF ~r.ok THEN ParseFail
    ELSE LET j == Skip(t, r.j) IN
         IF j > Len(t) THEN ParseFail
         ELSE IF t[j].k = "," THEN ParseElems(t, j + 1, Append(acc, r.v))
         ELSE IF t[j].k = "]"
              THEN [ok |-> TRUE, v |-> VList(Append(acc, r.v)), j |-> j + 1]
              ELSE ParseFail

ParseMembers(t, i0, acc) ==
    LET i == Skip(t, i0) IN
    IF i > Len(t) \/ t[i].k # "dstr" THEN ParseFail
    ELSE LET c == Skip(t, i + 1) IN
         IF c > Len(t) \/ t[c].k # ":" THEN ParseFail
         ELSE LET r == ParseValue(t, c + 1) IN
              IF ~r.ok THEN ParseFail
              ELSE LET j == Skip(t, r.j)
                       \* a repeated key keeps its last value
                       acc2 == [key \in (DOMAIN acc) \cup {t[i].s} |->
                                   IF key = t[i].s THEN r.v ELSE acc[key]]
                   IN IF j > Len(t) THEN ParseFail
                      ELSE IF t[j].k = "," THEN ParseMembers(t, j + 1, acc2)
                      ELSE IF t[j].k = "}"
                           THEN [ok |-> TRUE, v |-> VDict(acc2), j |-> j + 1]
                           ELSE ParseFail

\* the value r parsed from t is the result if nothing but whitespace follows it
WholeText(t, r) ==
    IF r.ok /\ Skip(t, r.j) > Len(t)
    THEN [ok |-> TRUE, v |-> r.v]
    ELSE [ok |-> FALSE, v |-> VNone]

\* json.loads(text): ok = FALSE stands for json.JSONDecodeError
JsonLoads(t) == WholeText(t, ParseValue(t, 1))

-----------------------------------------------------------------------------
(* The memory store: models.AgentMemory rows written by the orchestrator *)

\* rows kept by the clean-up of _update_memory (.offset(100))
RetainedRecords == 100
\* rows read by _get_relevant_memories (limit=5)
MemoryLimit == 5

MemoryRow(type, content) == [type |-> type, content |-> content]

\* variant: the rows ordered by timestamp ascending, after the first `offset`
OlderThan_Ascending(mem, offset) ==
    IF Len(mem) > offset THEN SubSeq(mem, offset + 1, Len(mem)) ELSE <<>>

\* the rows ordered by timestamp descending, after the first `offset` of them
OlderThan(mem, offset) ==
    IF Len(mem) > offset THEN SubSeq(mem, 1, Len(mem) - offset) ELSE <<>>

\* lines 436-444: the rows beyond the 100 most recent are deleted
Pruned(inserted, db) ==
    IF db = "prune_fails" THEN inserted
    ELSE SubSeq(inserted, Len(OlderThan(inserted, RetainedRecords)) + 1, Len(inserted))

\* variant: nothing is inserted
_update_memory_Discards(mem, entry, db) == mem

\* SuperAgent._update_memory: insert and commit, then delete every row beyond
\* the 100 most recent and commit.  db is the outcome of the database session:
\* "ok", "insert_fails" (add/commit raises) or "prune_fails" (the clean-up
\* raises); every exception is logged and swallowed.
_update_memory(mem, entry, db) ==
    IF db = "insert_fails" THEN mem
    ELSE Pruned(Append(mem, MemoryRow(entry.type, entry.content)), db)

RECURSIVE Reverse(_)
Reverse(sq) == IF sq = <<>> THEN <<>> ELSE Append(Reverse(Tail(sq)), Head(sq))

\* SuperAgent._get_relevant_memories: the `limit` most recent rows, most recent
\* first; an exception of the query yields the empty list.
_get_relevant_memories(mem, db) ==
    IF db # "ok" THEN <<>>
    ELSE Reverse(SubSeq(mem, Len(mem) - (IF Len(mem) < MemoryLimit THEN Len(mem) ELSE MemoryLimit) + 1, Len(mem)))

\* BaseAgent.__init__: self.confidence_score = 0.5
InitialConfidence == 50
\* _update_agent_performance: the step of a success or failure (0.05) and the
\* limits of min(1.0, .) and max(0.1, .)
ConfidenceStep == 5
MaxConfidence == 100
MinConfidence == 10

\* agent.__class__.__name__ of the agent stored under a key
ClassName(key) ==
    CASE key = "thesis" -> "ThesisAgent"
      [] key = "twitter" -> "TwitterAgent"
      [] key = "financial" -> "FinancialReportAgent"
      [] key = "product" -> "ProductDescriptionAgent"
      [] key = "data_analysis" -> "DataAnalysisAgent"
      [] key = "fallback" -> "FallbackAgent"
      [] OTHER -> "SerperAgent"

\* lines 374-383 without the max of the failure branch
NewConfidence_NoFloor(score, success) ==
    IF success
    THEN (IF score + ConfidenceStep < MaxConfidence THEN score + ConfidenceStep ELSE MaxConfidence)
    ELSE score - ConfidenceStep

\* lines 374-383 without min and max
NewConfidence_Unclamped(score, success) ==
    IF success THEN score + ConfidenceStep ELSE score - ConfidenceStep

\* lines 374-383: the score after a success or a failure
NewConfidence(score, success) ==
    IF success
    THEN (IF score + ConfidenceStep < MaxConfidence THEN score + ConfidenceStep ELSE MaxConfidence)
    ELSE (IF score - ConfidenceStep > MinConfidence THEN score - ConfidenceStep ELSE MinConfidence)

\* SuperAgent._update_agent_performance(agent, success): the agent's score is
\* stepped, then a 'performance' row is inserted and committed without any
\* clean-up; an exception of the session (db = "insert_fails") is logged and
\* swallowed, the score staying stepped.  The attribute exists since
\* BaseAgent.__init__, so line 373 never assigns.
_update_agent_performance(scores, mem, agent, success, db) ==
    LET score == NewConfidence(scores[agent], success) IN
    [scores |-> [scores EXCEPT ![agent] = score],
     memory |-> IF db = "insert_fails" THEN mem
                ELSE Append(mem, MemoryRow("performance",
                                           [agent_type |-> ClassName(agent),
                                            success |-> success,
                                            confidence_score |-> score]))]

-----------------------------------------------------------------------------
(* LLM responses: what BaseAgent._call_api hands back for a stream=False call *)

\* status: "ok" (2xx), "http_error" (non-2xx: _call_api raises),
\*         "transport_error" (requests raises: _call_api raises)
\* body (of an ok response): "not_json" (response.json() raises),
\*         "no_choices" (a JSON object without "choices"),
\*         "bad_choices" (choices[0].message.content cannot be reached),
\*         "null_content" (the content is null), "content"
\* content: the text of choices[0].message.content
Response(status, body, content) == [status |-> status, body |-> body, content |-> content]
FailedResponses == {Response(st, "not_json", <<>>) : st \in {"http_error", "transport_error"}}
EmptyBodyResponses ==
    {Response("ok", b, <<>>) : b \in {"not_json", "no_choices", "bad_choices", "null_content"}}
ContentResponse(content) == Response("ok", "content", content)

\* BaseAgent._call_api raises for a non-2xx status and for a transport error
CallApiRaises(resp) == resp.status # "ok"

Returned(val) == [exc |-> FALSE, val |-> val]
Raised == [exc |-> TRUE, val |-> "exception"]

-----------------------------------------------------------------------------
(* Classification: SuperAgent.determine_content_type *)

\* the threshold of "if confidence < 0.5", in hundredths
ConfidenceThreshold == 50

valid_types == {"thesis", "twitter", "financial", "product", "fallback"}

\* the keys determine_content_type reads from specialized_agents (473-477)
DescribedAgents == {"thesis", "twitter", "financial", "product", "fallback"}

RECURSIVE RegexContentTypeFrom(_, _)
\* re.search(r'"content_type":\s*"([^"]+)"', text) from token i on:
\* group(1), or "" for no match
RegexContentTypeFrom(t, i) ==
    IF i + 2 > Len(t) THEN ""
    ELSE LET j == Skip(t, i + 2) IN
         IF /\ t[i] = DS("content_type")
            /\ t[i + 1].k = ":"
            /\ j <= Len(t)
            /\ t[j].k = "dstr"
            /\ t[j].s # ""
         THEN t[j].s
         ELSE RegexContentTypeFrom(t, i + 1)

RegexContentType(t) == RegexContentTypeFrom(t, 1)

\* line 561: content_match.group(1).lower() if content_match else "fallback"
LabelOrFallback(m) == IF m # "" THEN Lower(m) ELSE "fallback"

\* lines 546-562: the label from the content of the classification response,
\* p being what json.loads made of it
LabelFromParsed(p, content) ==
    IF p.ok
    THEN \* parsed_result.get(...): only a dict has .get
         IF p.v.ty # "dict" THEN Raised
         ELSE LET ct == IF HasKey(p.v, "content_type")
                        THEN p.v.fields["content_type"] ELSE VStr("fallback")
                  confidence == IF HasKey(p.v, "confidence")
                                THEN p.v.fields["confidence"] ELSE VNum(0)
              IN IF ct.ty # "str" THEN Raised            \* .lower() of a non-string
                 ELSE IF confidence.ty # "num" THEN Raised  \* '<' of a non-number
                 ELSE IF confidence.n < ConfidenceThreshold THEN Returned("fallback")
                 ELSE Returned(Lower(ct.s))
    ELSE \* json.JSONDecodeError: the scalar extraction
         Returned(LabelOrFallback(RegexContentType(content)))

\* line 545: json.loads(content), then one of the two branches
LabelFromContent(content) == LabelFromParsed(JsonLoads(content), content)

\* lines 576-578: except Exception as parse_error: content_type = "fallback"
ParseErrorIsFallback(r) == IF r.exc THEN Returned("fallback") ELSE r

\* lines 540-578: the label a returned response resolves to; the response of
\* requests always has .json, so the str(response) branch (565-574) is not taken
LabelFromResponse(resp) ==
    ParseErrorIsFallback(
        CASE resp.body \in {"not_json", "bad_choices", "null_content"} -> Raised
          [] resp.body = "no_choices" -> Returned("fallback")
          [] OTHER -> LabelFromContent(resp.content))

\* the parsed value, or the default after json.JSONDecodeError
ParsedOr(p, default) == IF p.ok THEN p.v ELSE default

\* lines 329-366: _analyze_task_complexity never raises
_analyze_task_complexity(resp) ==
    IF CallApiRaises(resp) THEN VDict([error |-> VStr("call failed")])
    ELSE ParsedOr(JsonLoads(resp.content),        \* json.loads(response.text)
                  VDict([error |-> VStr("Invalid JSON response")]))

\* lines 582-583: a label outside valid_types becomes "fallback"
ValidLabel(label) == IF label \in valid_types THEN label ELSE "fallback"

\* variant: the descriptions of the agents are not read
ClassificationOutcome_NoDescriptions(agents, resp, mem2, decision_history) ==
    IF CallApiRaises(resp)
    THEN [exc |-> TRUE, val |-> "exception", memory |-> mem2,
          trace |-> <<"llm:analysis", "memory:analysis", "llm:classify">>,
          history |-> decision_history]
    ELSE [exc |-> FALSE, val |-> ValidLabel(LabelFromResponse(resp).val),
          memory |-> mem2,
          trace |-> <<"llm:analysis", "memory:analysis", "llm:classify">>,
          history |-> decision_history]

\* lines 472-583, with the memory as line 470 left it and the past decisions
\* of line 466
ClassificationOutcome(agents, resp, mem2, decision_history) ==
    IF ~(DescribedAgents \subseteq agents)
    THEN \* KeyError while building agent_descriptions
         [exc |-> TRUE, val |-> "exception", memory |-> mem2,
          trace |-> <<"llm:analysis", "memory:analysis">>, history |-> decision_history]
    ELSE IF CallApiRaises(resp)
    THEN [exc |-> TRUE, val |-> "exception", memory |-> mem2,
          trace |-> <<"llm:analysis", "memory:analysis", "llm:classify">>,
          history |-> decision_history]
    ELSE [exc |-> FALSE, val |-> ValidLabel(LabelFromResponse(resp).val),
          memory |-> mem2,
          trace |-> <<"llm:analysis", "memory:analysis", "llm:classify">>,
          history |-> decision_history]

\* lines 466-583, without the outermost handler: [exc, val, memory, trace]
DetermineContentTypeBody(agents, mem, analysis, db, resp) ==
    ClassificationOutcome(
        agents, resp,
        _update_memory(mem, [type |-> "analysis",
                             content |-> _analyze_task_complexity(analysis)], db.write),
        SelectSeq(_get_relevant_memories(mem, db.read), LAMBDA m : m.type = "decision"))

\* determine_content_type without its outermost "except Exception" handler
determine_content_type_Unguarded(agents, mem, analysis, db, resp) ==
    DetermineContentTypeBody(agents, mem, analysis, db, resp)

\* lines 585-588: except Exception: return "fallback"
ExceptionIsFallback(b) == IF b.exc THEN [b EXCEPT !.exc = FALSE, !.val = "fallback"] ELSE b

\* SuperAgent.determine_content_type: any exception is mapped to "fallback"
determine_content_type(agents, mem, analysis, db, resp) ==
    ExceptionIsFallback(DetermineContentTypeBody(agents, mem, analysis, db, resp))

-----------------------------------------------------------------------------
(* Planning: SuperAgent._get_tool_sequence *)

\* an exception where the value returned would be a Python value
RaisedValue == [exc |-> TRUE, val |-> VNone]

Min(S) == CHOOSE x \in S : \A y \in S : x <= y

\* re.sub(kind + r'\s*', '', text): the tokens of the kind go, each with the
\* whitespace run that follows it
RemoveWithTrailingWs(t, kind) ==
    SelectSeq([i \in 1..Len(t) |->
                  IF \/ t[i].k = kind
                     \/ (t[i].k = "ws" /\ i > 1 /\ t[i - 1].k = kind)
                  THEN Tk("removed") ELSE t[i]],
              LAMBDA x : x.k # "removed")

\* lines 236-237: the markdown code block indicators are removed
StripFences(t) == RemoveWithTrailingWs(RemoveWithTrailingWs(t, "fence_json"), "fence")

\* positions where r'\[\s*\{.*?\}\s*\]' can start, and where it then ends
ArrayEnds(t, i) ==
    LET b == Skip(t, i + 1) IN
    IF t[i].k = "[" /\ b <= Len(t) /\ t[b].k = "{"
    THEN {Skip(t, j + 1) : j \in {x \in (b + 1)..Len(t) :
                                    /\ t[x].k = "}"
                                    /\ Skip(t, x + 1) <= Len(t)
                                    /\ t[Skip(t, x + 1)].k = "]"}}
    ELSE {}
ArrayStarts(t) == {i \in 1..Len(t) : ArrayEnds(t, i) # {}}

\* lines 240-247: matches[0] of re.findall(r'\[\s*\{.*?\}\s*\]', content, re.DOTALL):
\* the leftmost start and, the match being lazy, the nearest end
FirstArray(t) ==
    LET i == Min(ArrayStarts(t)) IN SubSeq(t, i, Min(ArrayEnds(t, i)))

\* line 252: re.sub(r',(\s*[}\]])', r'\1', json_str)
RemoveTrailingCommas(t) ==
    SelectSeq([i \in 1..Len(t) |->
                  IF /\ t[i].k = ","
                     /\ Skip(t, i + 1) <= Len(t)
                     /\ t[Skip(t, i + 1)].k \in {"}", "]"}
                  THEN Tk("removed") ELSE t[i]],
              LAMBDA x : x.k # "removed")

\* line 254: re.sub(r'\]\s*\[', '][', json_str)
JoinArrays(t) ==
    SelectSeq([i \in 1..Len(t) |->
                  IF /\ t[i].k = "ws" /\ 1 < i /\ i < Len(t)
                     /\ t[i - 1].k = "]" /\ t[i + 1].k = "["
                  THEN Tk("removed") ELSE t[i]],
              LAMBDA x : x.k # "removed")

\* lines 289-294: whitespace runs collapse to one blank, every double quote is
\* escaped, every single quote becomes a double quote, and the unicode-escape
\* decoding takes the escapes away again: a 'single quoted' literal ends up
\* "double quoted"
NormalizeQuotes(t) == [i \in 1..Len(t) |-> IF t[i].k = "sstr" THEN DS(t[i].s) ELSE t[i]]

required_keys == {"tool_id", "parameters", "reason", "expected_output"}

\* lines 259-280: [] unless every step is a dict with the required keys whose
\* parameters is a dict
ValidatedSequence(sequence) ==
    IF sequence.ty # "list" THEN VList(<<>>)
    ELSE IF \A k \in 1..Len(sequence.items) :
               LET step == sequence.items[k] IN
               /\ step.ty = "dict"
               /\ required_keys \subseteq DOMAIN step.fields
               /\ step.fields["parameters"].ty = "dict"
         THEN sequence
         ELSE VList(<<>>)

\* lines 286-304: the second parse, after the more aggressive cleaning
RecoveredSequence(json_str) ==
    LET p == JsonLoads(NormalizeQuotes(json_str)) IN
    IF ~p.ok THEN VList(<<>>)                  \* except Exception as fix_error
    ELSE IF p.v.ty = "list" /\ \A k \in 1..Len(p.v.items) : p.v.items[k].ty = "dict"
         THEN p.v
         ELSE VList(<<>>)

\* lines 235-304: the sequence recovered from the content of the planning answer
SequenceFromContent(content) ==
    LET stripped == StripFences(content) IN
    IF ArrayStarts(stripped) = {} THEN VList(<<>>)     \* "No JSON array found"
    ELSE LET json_str == JoinArrays(RemoveTrailingCommas(FirstArray(stripped)))
             p == JsonLoads(json_str)
         IN IF p.ok THEN ValidatedSequence(p.v) ELSE RecoveredSequence(json_str)

\* lines 181-304, without the outermost handler
GetToolSequenceBody(resp) ==
    IF CallApiRaises(resp) THEN RaisedValue
    ELSE IF resp.body # "content" THEN RaisedValue   \* response.json()[...] or re.sub raises
    ELSE Returned(SequenceFromContent(resp.content))

\* _get_tool_sequence without its outermost "except Exception" handler
_get_tool_sequence_Unguarded(resp) == GetToolSequenceBody(resp)

\* SuperAgent._get_tool_sequence: any exception yields the empty list
_get_tool_sequence(resp) ==
    LET b == GetToolSequenceBody(resp) IN
    IF b.exc THEN Returned(VList(<<>>)) ELSE b

-----------------------------------------------------------------------------
(* The tool registry and the tools the agents register *)

StartsWith(str, prefix) ==
    Len(str) >= Len(prefix) /\ SubSeq(str, 1, Len(prefix)) = prefix

\* BaseAgent.agent_type of the agent stored under a key of specialized_agents,
\* and of the search agent: the lowered class name without "agent", unless the
\* constructor sets it
AgentType(key) ==
    CASE key = "thesis" -> "thesis"
      [] key = "twitter" -> "twitter"
      [] key = "financial" -> "financial"
      [] key = "product" -> "productdescription"
      [] key = "data_analysis" -> "dataanalysis"
      [] key = "fallback" -> "fallback"
      [] OTHER -> "serper"

\* a register_tool call: the name, the declared parameters, and the method, of
\* which the model keeps the keyword arguments it requires (those without default)
ToolSpec(name, parameters, required) ==
    [name |-> name, parameters |-> parameters, required |-> required]

\* the register_tool calls of each agent's constructor
RegisteredBy(key) ==
    CASE key = "thesis" ->
            <<ToolSpec("thesis_analyze_sources", {"sources", "input_data"}, {}),
              ToolSpec("thesis_generate", {"topic", "analysis", "input_data"}, {"topic"})>>
      [] key = "twitter" ->
            <<ToolSpec("twitter_generate", {"topic", "input_data"}, {"topic"}),
              ToolSpec("sentiment_search", {"query"}, {"query"})>>
      [] key = "financial" ->
            <<ToolSpec("financial_ratio_analysis", {"financial_data", "input_data"},
                       {"financial_data"}),
              ToolSpec("financial_trend_analysis", {"historical_data", "input_data"},
                       {"historical_data"}),
              ToolSpec("financial_generate", {"topic", "analysis", "input_data"},
                       {"topic", "analysis"})>>
      [] key = "product" ->
            <<ToolSpec("generate_specs", {"product_info"}, {"product_info"}),
              ToolSpec("create_marketing_copy", {"product_info", "tone"},
                       {"product_info", "tone"})>>
      [] key = "data_analysis" ->
            <<ToolSpec("analyze_text", {"text"}, {"text"}),
              ToolSpec("analyze_numbers", {"data"}, {"data"})>>
      [] key = "fallback" ->
            <<ToolSpec("generate_clarification", {"query"}, {"query"})>>
      [] OTHER ->
            <<ToolSpec("scholar_search", {"query", "input_data"}, {"query"}),
              ToolSpec("general_search", {"query", "input_data"}, {"query"}),
              ToolSpec("serper_generate", {"query", "search_type", "input_data"}, {"query"})>>

\* BaseAgent.register_tool: the id under which the agent keeps the tool
AgentToolId(agent_type, name) ==
    IF ~StartsWith(name, agent_type \o "_") THEN agent_type \o "_" \o name ELSE name

\* BaseAgent.get_available_tools: the agent's tool ids, in registration order
AvailableTools(key) ==
    [k \in 1..Len(RegisteredBy(key)) |->
        [tool_id |-> AgentToolId(AgentType(key), RegisteredBy(key)[k].name),
         parameters |-> RegisteredBy(key)[k].parameters,
         required |-> RegisteredBy(key)[k].required]]

SharedTool(name, parameters, required, agent_type) ==
    [name |-> name, parameters |-> parameters, required |-> required,
     agent_type |-> agent_type]

\* register_tool storing the descriptor under the name alone
RegisterTool_UnderName(tools, name, parameters, required, agent_type) ==
    [k \in (DOMAIN tools) \cup {name} |->
        IF k = name THEN SharedTool(name, parameters, required, agent_type) ELSE tools[k]]

\* register_tool keeping the descriptor already stored under the id
RegisterTool_KeepFirst(tools, name, parameters, required, agent_type) ==
    LET tool_id == agent_type \o "_" \o name IN
    [k \in (DOMAIN tools) \cup {tool_id} |->
        IF k \in DOMAIN tools THEN tools[k]
        ELSE SharedTool(name, parameters, required, agent_type)]

\* ToolRegistry.register_tool: the descriptor is stored under agent_type_name,
\* replacing whatever was stored there
RegisterTool(tools, name, parameters, required, agent_type) ==
    LET tool_id == agent_type \o "_" \o name IN
    [k \in (DOMAIN tools) \cup {tool_id} |->
        IF k = tool_id THEN SharedTool(name, parameters, required, agent_type) ELSE tools[k]]

\* ToolRegistry.get_tool: the descriptor, or found = FALSE for None
GetTool(tools, tool_id) ==
    IF tool_id \in DOMAIN tools
    THEN [found |-> TRUE, tool |-> tools[tool_id]]
    ELSE [found |-> FALSE, tool |-> SharedTool("", {}, {}, "")]

\* ToolRegistry.get_tools_by_agent: the entries whose agent_type is the owner
GetToolsByAgent(tools, agent_type) ==
    [k \in {x \in DOMAIN tools : tools[x].agent_type = agent_type} |-> tools[k]]

\* variant: the lookup takes the descriptor out of the mapping (dict.pop)
ToolsAfterGet_Pop(tools, tool_id) ==
    [k \in (DOMAIN tools) \ {tool_id} |-> tools[k]]

\* the mapping after get_tool(tool_id) and after get_tools_by_agent: dict.get
\* and the comprehension over items() leave self._tools as it was
ToolsAfterGet(tools, tool_id) == tools

RECURSIVE RegisterAgentTools(_, _, _, _)
\* the inner loop of _register_all_agent_tools over one agent's tools
RegisterAgentTools(tools, available, agent_type, k) ==
    IF k > Len(available) THEN tools
    ELSE RegisterAgentTools(
            RegisterTool(tools, available[k].tool_id, available[k].parameters,
                         available[k].required, agent_type),
            available, agent_type, k + 1)

\* the keys of specialized_agents in the order routes.py inserts them
AgentOrder == <<"thesis", "twitter", "data_analysis", "financial", "product", "fallback">>

RECURSIVE RegisterAgents(_, _, _)
RegisterAgents(tools, agents, k) ==
    IF k > Len(AgentOrder) THEN tools
    ELSE IF AgentOrder[k] \in agents
         THEN RegisterAgents(
                RegisterAgentTools(tools, AvailableTools(AgentOrder[k]), AgentType(AgentOrder[k]), 1),
                agents, k + 1)
         ELSE RegisterAgents(tools, agents, k + 1)

\* SuperAgent._register_all_agent_tools: the tools of every specialized agent,
\* then those of the search agent under the owner tag 'serper'
_register_all_agent_tools(agents) ==
    RegisterAgentTools(RegisterAgents(<<>>, agents, 1), AvailableTools("serper"), "serper", 1)

-----------------------------------------------------------------------------
(* Executing a tool sequence: SuperAgent._execute_tool_sequence *)

\* a chunk of an output stream: json.dumps of a dict with 'type' and either
\* 'content' or 'error' (key), and 'step' for the error of a step (0: no 'step')
Chunk(type, key, payload, step) ==
    [type |-> type, key |-> key, payload |-> payload, step |-> step]

\* json.dumps(result, indent=2): a text that holds the serialised value
JsonDumps(v) == [ty |-> "json_text", s |-> "", n |-> 0, items |-> <<v>>, fields |-> EmptyFields]

Digits == <<"1", "2", "3", "4", "5", "6", "7", "8", "9">>

\* re.search(r'\$STEP\[(\d+)\]', param_value): the step a string refers to, 0 if none
StepRef(str) ==
    IF \E n \in 1..Len(Digits) : str = "$STEP[" \o Digits[n] \o "]"
    THEN CHOOSE n \in 1..Len(Digits) : str = "$STEP[" \o Digits[n] \o "]"
    ELSE 0

\* dict.get(key) on a step
Get(step, key) == IF key \in DOMAIN step.fields THEN step.fields[key] ELSE VNone

\* variant: no reference is replaced
SubstituteReferences_Never(params, outputs) == params

\* lines 100-107: the parameters with the resolvable step references replaced
SubstituteReferences(params, outputs) ==
    [name \in DOMAIN params |->
        IF params[name].ty = "str" /\ StepRef(params[name].s) \in DOMAIN outputs
        THEN outputs[StepRef(params[name].s)]
        ELSE params[name]]

\* variant: an input_data that the plan supplies is kept
AddInputData_KeepGiven(params, tool, accumulated) ==
    IF "input_data" \in tool.parameters /\ "input_data" \notin DOMAIN params
    THEN [name \in (DOMAIN params) \cup {"input_data"} |->
            IF name = "input_data"
            THEN (IF Truthy(accumulated) THEN accumulated ELSE VNone)
            ELSE params[name]]
    ELSE params

\* variant: input_data is never set
AddInputData_Never(params, tool, accumulated) == params

\* lines 110-111: input_data is set for a tool that declares it
AddInputData(params, tool, accumulated) ==
    IF "input_data" \in tool.parameters
    THEN [name \in (DOMAIN params) \cup {"input_data"} |->
            IF name = "input_data"
            THEN (IF Truthy(accumulated) THEN accumulated ELSE VNone)
            ELSE params[name]]
    ELSE params

\* lines 86-111 for one step: the step is skipped, raises, or calls the tool
PrepareStep(step, registry, accumulated, outputs) ==
    LET tool_id == Get(step, "tool_id")
        nothing == [kind |-> "skip", tool_id |-> "", params |-> <<>>]
    IN
    IF step.ty # "dict" THEN [nothing EXCEPT !.kind = "raise"]      \* no .get
    ELSE IF ~Truthy(tool_id) THEN nothing                          \* "No tool_id in step"
    ELSE IF tool_id.ty \in {"list", "dict"} THEN [nothing EXCEPT !.kind = "raise"]
    ELSE IF ~(tool_id.ty = "str" /\ GetTool(registry, tool_id.s).found) THEN nothing
    ELSE LET tool == GetTool(registry, tool_id.s).tool
             given == IF "parameters" \in DOMAIN step.fields
                      THEN step.fields["parameters"] ELSE VDict(EmptyFields)
         IN IF given.ty # "dict"
            THEN [nothing EXCEPT !.kind = "raise"]                  \* no .copy / .items
            ELSE [kind |-> "call", tool_id |-> tool_id.s,
                  params |-> AddInputData(SubstituteReferences(given.fields, outputs),
                                          tool, accumulated)]

\* tool.method(**params) binds: no unknown keyword, every required one given
Binds(tool, params) ==
    /\ DOMAIN params \subseteq tool.parameters
    /\ tool.required \subseteq DOMAIN params

ResultText(k) == VStr("result " \o Digits[k])

\* what the registered methods can return (exc: the method raises) at step k
MethodResults(tool, k) ==
    CASE tool.name \in {"serper_scholar_search", "serper_general_search"} ->
            \* the search results, [] on any failure
            {Returned(VList(<<VDict([title |-> ResultText(k)])>>)), Returned(VList(<<>>))}
      [] tool.name = "twitter_sentiment_search" ->
            \* the tweets' text or a message, never empty
            {Returned(ResultText(k))}
      [] tool.name \in {"financial_ratio_analysis", "financial_trend_analysis"} ->
            \* safe_parse_json of the LLM's answer, or {"error": ...}
            {Returned(VDict([status |-> VStr("success"),
                             data |-> VDict([message |-> ResultText(k)])])),
             Returned(VDict([status |-> VStr("success"), data |-> ResultText(k)])),
             Returned(VDict([ratios |-> ResultText(k)])),
             Returned(VStr(""))}
      [] tool.name = "fallback_generate_clarification" ->
            {Returned(VDict([message |-> ResultText(k),
                             possible_interpretations |-> VList(<<VStr("update")>>)]))}
      [] OTHER ->
            \* the generating tools: the text, or the LLM call raises
            {Returned(ResultText(k)), RaisedValue}

\* lines 124-128: the standardised envelopes are unwrapped
Unwrap(result) ==
    IF result.ty # "dict" THEN Returned(result)
    ELSE IF HasKey(result, "status") /\ HasKey(result, "data")
    THEN (IF result.fields["data"].ty # "dict" THEN RaisedValue      \* no .get
          ELSE IF HasKey(result.fields["data"], "message")
               THEN Returned(result.fields["data"].fields["message"])
               ELSE Returned(result.fields["data"]))
    ELSE IF HasKey(result, "message") /\ HasKey(result, "possible_interpretations")
    THEN Returned(result.fields["message"])
    ELSE Returned(result)

\* variant: every step yields its result
YieldsResult_EveryStep(k, sequence) == TRUE

\* line 135: only the step that is the last of the sequence yields its result
YieldsResult(k, sequence) == k = Len(sequence.items)

\* lines 137-141: the content chunk of a result
ContentChunk(type, result) ==
    Chunk(type, "content", IF result.ty = "str" THEN result ELSE JsonDumps(result), 0)

\* variant: the error chunk does not carry the step
StepErrorChunk_NoStep(type, k) == Chunk(type, "error", VStr("Error in step"), 0)

\* lines 143-150: the chunk of a step that raised
StepErrorChunk(type, k) == Chunk(type, "error", VStr("Error in step"), k)

\* variant: the result is recorded under the index of the following step
Store_Ahead(outputs, k, result) ==
    [n \in (DOMAIN outputs) \cup {k + 1} |-> IF n = k + 1 THEN result ELSE outputs[n]]

\* lines 131-132: step_outputs[step_index] = result
Store(outputs, k, result) ==
    [n \in (DOMAIN outputs) \cup {k} |-> IF n = k THEN result ELSE outputs[n]]

-----------------------------------------------------------------------------
(* The generate methods of the specialized agents *)

\* the chunk size of BaseAgent.generate
chunk_size == 1000

\* the default of max_retries, of BaseAgent.generate and of SuperAgent.generate
max_retries == 3

\* a text of len characters
Text(len) == [ty |-> "str", s |-> "text", n |-> len, items |-> <<>>, fields |-> EmptyFields]

\* "term in tool_id.lower()"
Contains(str, term) ==
    \E i \in 1..Len(str) :
        i + Len(term) - 1 <= Len(str) /\ SubSeq(str, i, i + Len(term) - 1) = term

\* lines 206-209 of base_agent.py: the ids of the agent's generation tools
GenerationTools(key) ==
    SelectSeq(AvailableTools(key),
              LAMBDA tool : \E term \in {"generate", "create", "write"} :
                                Contains(tool.tool_id, term))

\* lines 219-227: the keyword arguments generate gives the tool
GenerateParams(tool) ==
    (IF "topic" \in tool.parameters THEN {"topic"}
     ELSE IF "query" \in tool.parameters THEN {"query"} ELSE {})
    \cup (tool.parameters \cap {"input_data"})

\* variant: only the pieces of full size are cut
Slices_FullOnly(len) ==
    [k \in 1..(len \div chunk_size) |->
        [from |-> (k - 1) * chunk_size, to |-> k * chunk_size]]

\* lines 235-236: the positions result[i:i + chunk_size] covers, for i in
\* range(0, len(result), chunk_size); a slice ends where the text ends
Slices(len) ==
    [k \in 1..((len + chunk_size - 1) \div chunk_size) |->
        [from |-> (k - 1) * chunk_size,
         to |-> IF k * chunk_size < len THEN k * chunk_size ELSE len]]

\* lines 233-245: a text goes out in pieces of chunk_size, anything else as one
\* chunk holding its JSON text
ResultChunks(agent_type, result) ==
    IF result.ty = "str"
    THEN [k \in 1..Len(Slices(result.n)) |->
            Chunk(agent_type, "content",
                  Text(Slices(result.n)[k].to - Slices(result.n)[k].from), 0)]
    ELSE <<Chunk(agent_type, "content", JsonDumps(result), 0)>>

RECURSIVE BaseGenerateFrom(_, _, _)
\* BaseAgent.generate from the given attempt on; outcomes[a + 1] is what the
\* generation tool does in attempt a
BaseGenerateFrom(key, outcomes, a) ==
    IF a >= max_retries THEN <<>>
    ELSE LET tools == GenerationTools(key)
             fails == \/ tools = <<>>
                      \/ ~(tools[1].required \subseteq GenerateParams(tools[1]))
                      \/ outcomes[a + 1].exc
         IN IF ~fails THEN ResultChunks(AgentType(key), outcomes[a + 1].val)
            ELSE IF a = max_retries - 1
                 THEN <<Chunk(AgentType(key), "error", VStr("All attempts failed"), 0)>>
                 ELSE BaseGenerateFrom(key, outcomes, a + 1)

\* what the LLM request of a generation tool can come to: an answer with a
\* text, with an empty text, with a null content, or a failed request
LlmOutcomes == {"ok", "empty", "null", "fails"}

\* what the generation tool of an agent that inherits generate returns in one
\* attempt, given the outcome of its LLM request.  ThesisAgent's tool returns
\* the text, and its error text when the request failed or the content was
\* empty; TwitterAgent's tool returns the content of the answer whatever it is,
\* and an error text when the request failed; SerperAgent's tool makes no LLM
\* request and returns a JSON text; another tool lets the failure out.
GenerationToolResult(key, llm) ==
    CASE key = "thesis" -> IF llm = "ok" THEN Returned(Text(1500)) ELSE Returned(Text(400))
      [] key = "twitter" ->
            CASE llm = "ok" -> Returned(Text(280))
              [] llm = "empty" -> Returned(Text(0))
              [] llm = "null" -> Returned(VNone)
              [] OTHER -> Returned(Text(60))
      [] key = "serper" -> Returned(Text(280))
      [] OTHER -> IF llm = "fails" THEN RaisedValue ELSE Returned(Text(280))

\* what the generation tool of an agent that inherits generate can do in one
\* attempt
GenerationResults(key) == {GenerationToolResult(key, llm) : llm \in LlmOutcomes}

\* the attempts BaseAgent.generate makes: up to the first that does not raise,
\* max_retries when every attempt raises
AttemptsMade(key, outcomes) ==
    LET tools == GenerationTools(key)
        passing == {a \in 1..max_retries :
                      /\ tools # <<>>
                      /\ tools[1].required \subseteq GenerateParams(tools[1])
                      /\ ~outcomes[a].exc}
    IN IF passing = {} THEN max_retries ELSE Min(passing)

\* deltas of a streamed answer explored
MaxDeltas == 2

\* the generate of FallbackAgent and of ProductDescriptionAgent: one content
\* chunk per delta of the streamed answer, then an error chunk if the call or
\* the stream raised
StreamedGenerate(type, deltas, raised) ==
    [i \in 1..deltas |-> Chunk(type, "content", Text(i), 0)]
    \o (IF raised THEN <<Chunk(type, "error", VStr("error"), 0)>> ELSE <<>>)

\* the streams agent.generate(prompt) can yield, for the agent under a key
AgentStreams(key) ==
    CASE key \in {"fallback", "product"} ->
            {StreamedGenerate(key, deltas, raised) :
                deltas \in 0..MaxDeltas, raised \in BOOLEAN}
      [] key = "data_analysis" ->
            {<<Chunk("data_analysis", "content", Text(400), 0)>>}
      [] OTHER ->
            {BaseGenerateFrom(key, outcomes, 0) :
                outcomes \in [1..max_retries -> GenerationResults(key)]}

\* variant: the thesis agent whatever the category
get_agent_for_type_AlwaysThesis(agents, type) ==
    IF "thesis" \notin agents THEN Raised ELSE Returned("thesis")

\* SuperAgent.get_agent_for_type: the key of the agent returned; exc when the
\* default specialized_agents["thesis"] cannot be evaluated
get_agent_for_type(agents, type) ==
    IF "thesis" \notin agents THEN Raised
    ELSE Returned(IF type \in agents THEN type ELSE "thesis")

-----------------------------------------------------------------------------
(* The inputs the environment can supply *)

\* specialized_agents as routes.py builds it (no "fallback" entry), as the
\* constructor's default leaves it (empty), and with every described agent
RoutesAgents == {"thesis", "twitter", "data_analysis", "financial", "product"}
Compositions == {RoutesAgents, RoutesAgents \cup {"fallback"}}

\* labels a classification response can state
StatedLabels == {"thesis", "Thesis", "twitter", "financial", "product", "fallback", "poem"}
\* confidences a classification response can state, in hundredths
StatedConfidences == {49, 50}

ClassificationForms ==
    {"json", "prose_json", "fenced_json", "truncated_json", "single_quoted",
     "no_confidence", "no_content_type", "null_label", "text_confidence",
     "list", "prose"}

\* forms whose text states a confidence number
FormsWithConfidence ==
    {"json", "prose_json", "fenced_json", "truncated_json", "single_quoted",
     "no_content_type", "null_label", "list"}

ClassificationObject(label, conf) ==
    <<LBrace, DS("content_type"), Colon, WS, DS(label), Comma, WS,
      DS("confidence"), Colon, WS, NumTok(conf), RBrace>>

\* the text of a classification answer of the given form
ClassificationText(form, label, conf) ==
    CASE form = "json" -> ClassificationObject(label, conf)
      [] form = "prose_json" ->
            <<Word("Sure"), Colon, WS>> \o ClassificationObject(label, conf)
      [] form = "fenced_json" ->
            <<FenceJson, WS>> \o ClassificationObject(label, conf) \o <<WS, Fence>>
      [] form = "truncated_json" ->
            SubSeq(ClassificationObject(label, conf), 1, 11)
      [] form = "single_quoted" ->
            <<LBrace, SS("content_type"), Colon, WS, SS(label), Comma, WS,
              SS("confidence"), Colon, WS, NumTok(conf), RBrace>>
      [] form = "no_confidence" ->
            <<LBrace, DS("content_type"), Colon, WS, DS(label), RBrace>>
      [] form = "no_content_type" ->
            <<LBrace, DS("confidence"), Colon, WS, NumTok(conf), RBrace>>
      [] form = "null_label" ->
            <<LBrace, DS("content_type"), Colon, WS, NullTok, Comma, WS,
              DS("confidence"), Colon, WS, NumTok(conf), RBrace>>
      [] form = "text_confidence" ->
            <<LBrace, DS("content_type"), Colon, WS, DS(label), Comma, WS,
              DS("confidence"), Colon, WS, DS("high"), RBrace>>
      [] form = "list" ->
            <<LBracket>> \o ClassificationObject(label, conf) \o <<RBracket>>
      [] OTHER -> <<Word("I"), WS, Word("cannot"), WS, Word("decide")>>

\* forms whose text depends on the label only, on the confidence only, on neither
LabelOnlyForms == {"no_confidence", "text_confidence"}
ConfidenceOnlyForms == {"no_content_type", "null_label"}
FixedForms == {"prose"}

\* what can come back for the classification call: [resp, form, label, conf]
ClassificationAnswer(resp, form, label, conf) ==
    [resp |-> resp, form |-> form, label |-> label, conf |-> conf]
TextAnswer(f, l, c) ==
    ClassificationAnswer(ContentResponse(ClassificationText(f, l, c)), f, l, c)
ClassificationAnswers ==
    {TextAnswer(f, l, c) :
        f \in ClassificationForms \ (LabelOnlyForms \cup ConfidenceOnlyForms \cup FixedForms),
        l \in StatedLabels, c \in StatedConfidences}
    \cup {TextAnswer(f, l, 0) : f \in LabelOnlyForms, l \in StatedLabels}
    \cup {TextAnswer(f, "none", c) : f \in ConfidenceOnlyForms, c \in StatedConfidences}
    \cup {TextAnswer(f, "none", 0) : f \in FixedForms}
    \cup {ClassificationAnswer(r, "none", "none", 0) : r \in FailedResponses \cup EmptyBodyResponses}

\* what can come back for the complexity-analysis call
AnalysisResponses ==
    {Response("http_error", "not_json", <<>>),
     ContentResponse(<<Word("busy")>>),
     ContentResponse(<<LBrace, DS("confidence"), Colon, NumTok(90), RBrace>>)}

\* the database session during one call: works, or the read of the recent rows
\* raises, or the insert of a row raises
DbOutcomes ==
    {[read |-> "ok", write |-> "ok"], [read |-> "fails", write |-> "ok"],
     [read |-> "ok", write |-> "insert_fails"]}

NoCall == [answer |-> ClassificationAnswer(Response("none", "none", <<>>), "none", "none", 0)]
NoRet == [exc |-> FALSE, val |-> "none"]

\* SuperAgent.__init__: the registry is filled, nothing runs, nothing was used
Constructed ==
    /\ tool_registry = _register_all_agent_tools(specialized_agents)
    /\ pc = "idle"
    /\ tool_sequence = VList(<<>>)
    /\ content_type = "none"
    /\ step_index = 0
    /\ accumulated_result = VNone
    /\ step_outputs = <<>>
    /\ tools_used = <<>>
    /\ out = <<>>
    /\ attempt = 0
    /\ delegations = <<>>
    /\ confidence_score = [a \in specialized_agents \cup {"serper"} |-> InitialConfidence]
    /\ writers = <<>>
    /\ generated_content = <<>>
    /\ accumulated_content = <<>>

-----------------------------------------------------------------------------
(* Specification SpecClassify: calls of determine_content_type *)

InitClassify ==
    /\ specialized_agents \in Compositions
    /\ memory = <<>>
    /\ op = "idle"
    /\ call_in = NoCall
    /\ ret = NoRet
    /\ trace = <<>>
    /\ ncalls = 0
    /\ Constructed

\* one call of SuperAgent.determine_content_type(prompt)
DetermineContentTypeCall ==
    /\ ncalls < MaxCalls
    /\ \E answer \in ClassificationAnswers, analysis \in AnalysisResponses, db \in DbOutcomes :
          \E r \in {determine_content_type(specialized_agents, memory, analysis, db,
                                          answer.resp)} :
             /\ ret' = [exc |-> r.exc, val |-> r.val]
             /\ memory' = r.memory
             /\ trace' = r.trace
             /\ call_in' = [answer |-> answer, analysis |-> analysis, db |-> db]
    /\ op' = "determine_content_type"
    /\ ncalls' = ncalls + 1
    /\ UNCHANGED <<specialized_agents, generated_content, accumulated_content,
                   writers, confidence_score, tool_registry, exec_vars>>

NextClassify == DetermineContentTypeCall

SpecClassify == InitClassify /\ [][NextClassify]_vars

\* C1: determine_content_type returns exactly one of thesis, twitter,
\* financial, product, fallback and never raises, for every outcome of the two
\* LLM calls and of the memory store.
C1_ReturnsKnownLabel ==
    op = "determine_content_type" => (~ret.exc /\ ret.val \in valid_types)

\* a call whose classification answer was malformed, or whose LLM call failed,
\* has returned
C1_Witness ==
    /\ op = "determine_content_type"
    /\ "fallback" \in specialized_agents
    /\ call_in.answer.resp.status = "http_error"
    /\ ret = [exc |-> FALSE, val |-> "fallback"]
    /\ Len(memory) = 1

\* the classification answer states a confidence below 0.5
StatesLowConfidence(answer) ==
    /\ answer.form \in FormsWithConfidence
    /\ answer.conf < ConfidenceThreshold

\* C2: a classification answer carrying a confidence below 0.5 resolves to
\* fallback whatever label it states and whichever parsing path recovers it.
C2_LowConfidenceIsFallback ==
    (op = "determine_content_type" /\ StatesLowConfidence(call_in.answer))
        => ret.val = "fallback"

-----------------------------------------------------------------------------
(* Planning answers the environment can supply *)

\* steps of a planning answer explored
MaxPlanLen == 2

Str(q, x) == IF q = "s" THEN SS(x) ELSE DS(x)

RECURSIVE JoinWith(_, _)
\* the token sequences of parts, separated by sep
JoinWith(parts, sep) ==
    IF parts = <<>> THEN <<>>
    ELSE IF Len(parts) = 1 THEN parts[1]
    ELSE parts[1] \o sep \o JoinWith(Tail(parts), sep)

\* the text of a "parameters" value
ParamsTokens(q, kind) ==
    CASE kind = "query" ->
            <<LBrace, Str(q, "query"), Colon, WS, Str(q, "q"), RBrace>>
      [] kind = "own_input" ->
            <<LBrace, Str(q, "query"), Colon, WS, Str(q, "q"), Comma, WS,
              Str(q, "input_data"), Colon, WS, Str(q, "mine"), RBrace>>
      [] kind = "ref1" ->
            <<LBrace, Str(q, "query"), Colon, WS, Str(q, "$STEP[1]"), RBrace>>
      [] kind = "ref2" ->
            <<LBrace, Str(q, "query"), Colon, WS, Str(q, "$STEP[2]"), RBrace>>
      [] kind = "ref3" ->
            <<LBrace, Str(q, "query"), Colon, WS, Str(q, "$STEP[3]"), RBrace>>
      [] kind = "ref2_own_input" ->
            <<LBrace, Str(q, "query"), Colon, WS, Str(q, "$STEP[2]"), Comma, WS,
              Str(q, "input_data"), Colon, WS, Str(q, "mine"), RBrace>>
      [] kind = "financial_data" ->
            <<LBrace, Str(q, "financial_data"), Colon, WS, Str(q, "q"), RBrace>>
      [] kind = "nested" ->
            <<LBrace, Str(q, "sources"), Colon, WS, LBracket, LBrace, Str(q, "title"),
              Colon, WS, Str(q, "t"), RBrace, RBracket, RBrace>>
      [] OTHER -> <<Str(q, "none")>>      \* "text": not an object

\* an element of a planning answer: a step object with the members named in
\* present (tool_id "" for an absent tool_id), or a bare string
Element(kind, tool_id, present, params) ==
    [kind |-> kind, tool_id |-> tool_id, present |-> present, params |-> params]
FullStep(tool_id, params) ==
    Element("step", tool_id, {"reason", "parameters", "expected_output"}, params)

ElementTokens(q, el, closing) ==
    IF el.kind = "text" THEN <<Str(q, "x")>>
    ELSE <<LBrace>>
         \o JoinWith(
              (IF el.tool_id # "" THEN <<(<<Str(q, "tool_id"), Colon, WS, Str(q, el.tool_id)>>)>> ELSE <<>>)
              \o (IF "reason" \in el.present THEN <<(<<Str(q, "reason"), Colon, WS, Str(q, "why")>>)>> ELSE <<>>)
              \o (IF "parameters" \in el.present
                  THEN <<(<<Str(q, "parameters"), Colon, WS>> \o ParamsTokens(q, el.params))>> ELSE <<>>)
              \o (IF "expected_output" \in el.present
                  THEN <<(<<Str(q, "expected_output"), Colon, WS, Str(q, "what")>>)>> ELSE <<>>),
              <<Comma, WS>>)
         \o closing

ElementsTokens(q, els, closing) ==
    JoinWith([k \in 1..Len(els) |-> ElementTokens(q, els[k], closing)], <<Comma, WS>>)

PlanForms ==
    {"array", "fenced", "prose_around", "trailing_commas", "trailing_comma_list",
     "single_quoted", "missing_brackets", "unclosed", "bare_word", "prose"}

\* the text of a planning answer of the given form
PlanText(form, els) ==
    CASE form = "array" -> <<LBracket>> \o ElementsTokens("d", els, <<RBrace>>) \o <<RBracket>>
      [] form = "fenced" ->
            <<FenceJson, WS, LBracket>> \o ElementsTokens("d", els, <<RBrace>>)
            \o <<RBracket, WS, Fence>>
      [] form = "prose_around" ->
            <<Word("Plan"), Colon, WS, LBracket>> \o ElementsTokens("d", els, <<RBrace>>)
            \o <<RBracket, WS, Word("done")>>
      [] form = "trailing_commas" ->
            <<LBracket>> \o ElementsTokens("d", els, <<Comma, WS, RBrace>>) \o <<RBracket>>
      [] form = "trailing_comma_list" ->
            <<LBracket>> \o ElementsTokens("d", els, <<RBrace>>) \o <<Comma, WS, RBracket>>
      [] form = "single_quoted" ->
            <<LBracket>> \o ElementsTokens("s", els, <<RBrace>>) \o <<RBracket>>
      [] form = "missing_brackets" -> ElementsTokens("d", els, <<RBrace>>)
      [] form = "unclosed" -> <<LBracket>> \o ElementsTokens("d", els, <<RBrace>>)
      [] form = "bare_word" ->
            <<LBracket>> \o ElementsTokens("d", els, <<Comma, WS, Word("etc"), RBrace>>)
            \o <<RBracket>>
      [] OTHER -> <<Word("no"), WS, Word("tools"), WS, Word("needed")>>

\* registry keys and ids a planning answer names: two registered tools, and the
\* agent-level id the planning prompt recommends (line 202)
PlanTools == {"serper_serper_scholar_search", "thesis_thesis_generate", "serper_scholar_search"}

PlanElements ==
    {FullStep(t, "query") : t \in PlanTools}
    \cup {Element("step", "x", {}, "query"),
          FullStep("thesis_thesis_generate", "text"),
          FullStep("thesis_thesis_generate", "nested"),
          Element("text", "", {}, "query")}

SeqsUpTo(S, n) == UNION {[1..k -> S] : k \in 1..n}

PlanAnswer(resp, form, els) == [resp |-> resp, form |-> form, els |-> els]
PlanAnswersOver(forms, lists) ==
    {PlanAnswer(ContentResponse(PlanText(f, els)), f, els) : f \in forms \ {"prose"}, els \in lists}
    \cup {PlanAnswer(ContentResponse(PlanText(f, <<>>)), f, <<>>) : f \in forms \cap {"prose"}}
    \cup {PlanAnswer(r, "none", <<>>) : r \in FailedResponses \cup EmptyBodyResponses}

PlanAnswers == PlanAnswersOver(PlanForms, SeqsUpTo(PlanElements, MaxPlanLen))

-----------------------------------------------------------------------------
(* Specification SpecPlan: calls of _get_tool_sequence *)

InitPlan ==
    /\ specialized_agents \in Compositions
    /\ memory = <<>>
    /\ op = "idle"
    /\ call_in = [answer |-> PlanAnswer(Response("none", "none", <<>>), "none", <<>>)]
    /\ ret = Returned(VNone)
    /\ trace = <<>>
    /\ ncalls = 0
    /\ Constructed

\* one call of SuperAgent._get_tool_sequence(task, content_type); the method
\* keeps no state, so one call per behaviour is explored
GetToolSequenceCall ==
    /\ op = "idle"
    /\ \E answer \in PlanAnswers :
          /\ ret' = _get_tool_sequence(answer.resp)
          /\ call_in' = [answer |-> answer]
    /\ op' = "_get_tool_sequence"
    /\ trace' = <<"llm:plan">>
    /\ UNCHANGED ncalls
    /\ UNCHANGED <<specialized_agents, generated_content, accumulated_content,
                   writers, confidence_score, memory, tool_registry, exec_vars>>

NextPlan == GetToolSequenceCall

SpecPlan == InitPlan /\ [][NextPlan]_vars

\* C10: for every content the planning LLM can return and for a failing
\* planning call, _get_tool_sequence returns a list (possibly empty) and never
\* raises to its caller.
C10_PlannerReturnsList ==
    op = "_get_tool_sequence" => (~ret.exc /\ ret.val.ty = "list")

\* a planning call that failed in transport has returned the empty list
C10_WitnessFailedCall ==
    /\ op = "_get_tool_sequence"
    /\ call_in.answer.resp.status = "transport_error"
    /\ ret = Returned(VList(<<>>))

\* a step the validation of lines 259-280 accepts
WellFormedStep(step) ==
    /\ step.ty = "dict"
    /\ required_keys \subseteq DOMAIN step.fields
    /\ step.fields["parameters"].ty = "dict"

\* C11: every non-empty sequence _get_tool_sequence returns, at whichever
\* sanitization stage the parse succeeded, is a list whose every element is a
\* record with tool_id, parameters, reason and expected_output, parameters
\* being a record; an answer violating this in any element yields the empty
\* sequence.
C11_ReturnedPlanIsValidated ==
    (op = "_get_tool_sequence" /\ ~ret.exc /\ ret.val.ty = "list")
        => \A k \in 1..Len(ret.val.items) : WellFormedStep(ret.val.items[k])

-----------------------------------------------------------------------------
(* Specification SpecExec: one run of _execute_tool_sequence *)

\* steps of an executed sequence explored
MaxSteps == 3

\* the steps explored: registered tools with and without input_data, the
\* agent-level id the planning prompt recommends (not a registry key), a
\* reference to step 1, a tool answering with envelopes, a step without
\* tool_id, a step whose parameters are a string, and a step that refers to
\* step 2 and supplies an input_data of its own
ExecElements ==
    {FullStep("serper_serper_scholar_search", "query"),
     FullStep("twitter_twitter_sentiment_search", "query"),
     FullStep("serper_scholar_search", "query"),
     FullStep("serper_serper_general_search", "ref1"),
     FullStep("financial_financial_ratio_analysis", "financial_data"),
     Element("step", "", {"reason", "parameters", "expected_output"}, "query"),
     FullStep("twitter_twitter_sentiment_search", "text"),
     FullStep("serper_serper_general_search", "ref2_own_input")}

\* the sequences _get_tool_sequence returns for plans of these steps
SequencesOf(forms, lists) ==
    {_get_tool_sequence(ContentResponse(PlanText(f, els))).val : f \in forms, els \in lists}

ExecSequences == SequencesOf({"array", "single_quoted"}, SeqsUpTo(ExecElements, MaxSteps))

\* the categories generate passes on to _execute_tool_sequence
ExecContentTypes == valid_types \ {"fallback"}

InitExec ==
    /\ specialized_agents \in Compositions
    /\ memory = <<>>
    /\ op = "idle"
    /\ call_in = NoCall
    /\ ret = NoRet
    /\ trace = <<>>
    /\ ncalls = 0
    /\ Constructed

\* _execute_tool_sequence(tool_sequence, content_type) is called: lines 81-82
ExecuteToolSequenceCall ==
    /\ pc = "idle"
    /\ \E sequence \in ExecSequences, type \in ExecContentTypes :
          /\ tool_sequence' = sequence
          /\ content_type' = type
    /\ op' = "_execute_tool_sequence"
    /\ pc' = "exec"
    /\ step_index' = 0
    /\ accumulated_result' = VNone
    /\ step_outputs' = <<>>
    /\ UNCHANGED <<specialized_agents, generated_content, accumulated_content,
                   writers, confidence_score, memory, call_in, ret, trace, ncalls, tool_registry,
                   tools_used, out, attempt, delegations>>

\* one iteration of the loop of lines 84-150
ExecuteStep ==
    /\ pc = "exec"
    /\ step_index < Len(tool_sequence.items)
    /\ LET k == step_index + 1
           prep == PrepareStep(tool_sequence.items[k], tool_registry,
                               accumulated_result, step_outputs)
           raises == /\ out' = Append(out, StepErrorChunk(content_type, k))
                     /\ UNCHANGED <<accumulated_result, step_outputs>>
       IN /\ step_index' = k
          /\ CASE prep.kind = "skip" ->
                    UNCHANGED <<accumulated_result, step_outputs, tools_used, out>>
               [] prep.kind = "raise" ->
                    raises /\ UNCHANGED tools_used
               [] OTHER ->
                    /\ tools_used' = Append(tools_used,
                           [tool_id |-> prep.tool_id, parameters |-> prep.params, step |-> k])
                    /\ IF ~Binds(tool_registry[prep.tool_id], prep.params)
                       THEN raises                                   \* TypeError
                       ELSE \E r \in MethodResults(tool_registry[prep.tool_id], k) :
                              LET u == IF r.exc THEN r ELSE Unwrap(r.val) IN
                              IF u.exc THEN raises
                              ELSE /\ step_outputs' = Store(step_outputs, k, u.val)
                                   /\ accumulated_result' = u.val
                                   /\ out' = IF YieldsResult(k, tool_sequence)
                                             THEN Append(out, ContentChunk(content_type, u.val))
                                             ELSE out
    /\ UNCHANGED <<specialized_agents, generated_content, accumulated_content,
                   writers, confidence_score, memory, op, call_in, ret, trace, ncalls,
                   tool_registry, pc, tool_sequence, content_type, attempt, delegations>>

\* the loop is over: the generator ends
ExecuteReturn ==
    /\ pc = "exec"
    /\ step_index = Len(tool_sequence.items)
    /\ pc' = "done"
    /\ UNCHANGED <<specialized_agents, generated_content, accumulated_content,
                   writers, confidence_score, memory, op, call_in, ret, trace, ncalls,
                   tool_registry, tool_sequence, content_type, step_index,
                   accumulated_result, step_outputs, tools_used, out, attempt, delegations>>

NextExec == ExecuteToolSequenceCall \/ ExecuteStep \/ ExecuteReturn

SpecExec == InitExec /\ [][NextExec]_vars

ContentChunks(stream) == Cardinality({i \in 1..Len(stream) : stream[i].key = "content"})

\* C8: _execute_tool_sequence emits a content chunk only for the step whose
\* index equals the length of the sequence and only when that step has
\* completed without exception: at every point of a run the content chunks
\* emitted number 1 if the final step has recorded its result and 0 otherwise,
\* and the one content chunk carries that result; no intermediate step's result
\* is emitted as content.
C8_OnlyFinalResultIsContent ==
    op = "_execute_tool_sequence" =>
        LET n == Len(tool_sequence.items) IN
        /\ ContentChunks(out) = IF n > 0 /\ n \in DOMAIN step_outputs THEN 1 ELSE 0
        /\ \A i \in 1..Len(out) :
              out[i].key = "content" =>
                  /\ step_index = n
                  /\ out[i] = ContentChunk(content_type, step_outputs[n])

\* a three-step run has ended whose every step recorded a result and whose
\* stream holds the one content chunk
C8_WitnessFinalOfThree ==
    /\ pc = "done"
    /\ Len(tool_sequence.items) = 3
    /\ DOMAIN step_outputs = {1, 2, 3}
    /\ ContentChunks(out) = 1
    /\ Len(out) = 1

StepAt(k) == tool_sequence.items[k]

\* step k names a tool id that the registry does not hold
Unregistered(k) ==
    LET tool_id == Get(StepAt(k), "tool_id") IN
    /\ StepAt(k).ty = "dict"
    /\ tool_id.ty = "str" /\ tool_id.s # ""
    /\ tool_id.s \notin DOMAIN tool_registry

\* step j names a registered tool that declares input_data
AcceptsInputData(j) ==
    LET tool_id == Get(StepAt(j), "tool_id") IN
    /\ StepAt(j).ty = "dict"
    /\ tool_id.ty = "str"
    /\ tool_id.s \in DOMAIN tool_registry
    /\ "input_data" \in tool_registry[tool_id.s].parameters

\* the entries of tools_used that step j appended
UsedAt(j) == {i \in 1..Len(tools_used) : tools_used[i].step = j}

Max(S) == CHOOSE x \in S : \A y \in S : x >= y

\* the result of the last step before k that recorded one, None if there is none
LastResultBefore(k) ==
    LET prior == {m \in DOMAIN step_outputs : m < k} IN
    IF prior = {} THEN VNone ELSE step_outputs[Max(prior)]

\* what is common to both readings of C9, for an unregistered step k gone
\* through: no chunk of step k, nothing recorded or tracked for it, the loop
\* goes on to the end and every later step that can call its tool has called it
SkippedAndContinued(k) ==
    /\ \A i \in 1..Len(out) : out[i].step # k
    /\ (k = Len(tool_sequence.items) => ContentChunks(out) = 0)
    /\ k \notin DOMAIN step_outputs
    /\ UsedAt(k) = {}
    /\ (pc = "done" => step_index = Len(tool_sequence.items))
    /\ \A j \in (k + 1)..step_index :
          PrepareStep(StepAt(j), tool_registry, VNone, <<>>).kind = "call" => UsedAt(j) # {}

\* the step after k that is the next to accept input_data and has been called
NextAccepting(k) ==
    {j \in (k + 1)..step_index :
        /\ AcceptsInputData(j)
        /\ UsedAt(j) # {}
        /\ \A m \in (k + 1)..(j - 1) : ~AcceptsInputData(m)}

\* C9 as stated: an unregistered step k is skipped without emitting anything
\* and without ending the sequence, every later step is still attempted, and
\* the next step that accepts input_data receives the result of the last step
\* before k that produced a result.
C9_ReceivesLastResultBeforeSkipped ==
    op = "_execute_tool_sequence" =>
        \A k \in 1..step_index :
            Unregistered(k) =>
                /\ SkippedAndContinued(k)
                /\ \A j \in NextAccepting(k) : \A i \in UsedAt(j) :
                      /\ "input_data" \in DOMAIN tools_used[i].parameters
                      /\ tools_used[i].parameters["input_data"] = LastResultBefore(k)

\* C9 (amended): an unregistered step k is skipped without emitting anything
\* and without ending the sequence, every later step is still attempted, and
\* the next step that accepts input_data receives the most recent result
\* recorded before that step runs (a step between k and it may have recorded
\* one), passed as None when that result is empty or when there is none.
C9_ReceivesLatestRecordedResult ==
    op = "_execute_tool_sequence" =>
        \A k \in 1..step_index :
            Unregistered(k) =>
                /\ SkippedAndContinued(k)
                /\ \A j \in NextAccepting(k) : \A i \in UsedAt(j) :
                      /\ "input_data" \in DOMAIN tools_used[i].parameters
                      /\ tools_used[i].parameters["input_data"] =
                            (IF Truthy(LastResultBefore(j)) THEN LastResultBefore(j)
                             ELSE VNone)

\* the three-step plan whose second tool id is unregistered has run: step 3
\* was called with the result of step 1
C9_WitnessSkippedSecondOfThree ==
    /\ pc = "done"
    /\ Len(tool_sequence.items) = 3
    /\ Unregistered(2)
    /\ DOMAIN step_outputs = {1, 3}
    /\ Truthy(step_outputs[1])
    /\ \E i \in UsedAt(3) :
          /\ "input_data" \in DOMAIN tools_used[i].parameters
          /\ tools_used[i].parameters["input_data"] = step_outputs[1]
    /\ Len(out) = 1

-----------------------------------------------------------------------------
(* Specification Spec: one run of SuperAgent.generate *)

\* the steps of the planning answers explored in a run of generate
GenerateElements ==
    {FullStep("serper_serper_scholar_search", "query"),
     FullStep("twitter_twitter_sentiment_search", "query"),
     FullStep("serper_scholar_search", "query"),
     FullStep("thesis_thesis_generate", "query"),
     Element("step", "", {"reason", "parameters", "expected_output"}, "query"),
     Element("step", "x", {}, "query")}

GeneratePlanAnswers == PlanAnswersOver(PlanForms, SeqsUpTo(GenerateElements, MaxPlanLen))

Init ==
    /\ specialized_agents \in Compositions
    /\ memory = <<>>
    /\ op = "idle"
    /\ call_in = NoCall
    /\ ret = NoRet
    /\ trace = <<>>
    /\ ncalls = 0
    /\ Constructed

\* generate(prompt) is called and its retry loop entered (line 153)
GenerateCall ==
    /\ pc = "idle"
    /\ op' = "generate"
    /\ pc' = "classify"
    /\ attempt' = 0
    /\ UNCHANGED <<specialized_agents, generated_content, accumulated_content,
                   writers, confidence_score, memory, call_in, ret, trace, ncalls, tool_registry,
                   tool_sequence, content_type, step_index, accumulated_result,
                   step_outputs, tools_used, out, delegations>>

\* lines 155-158: the prompt is classified
Classify ==
    /\ pc = "classify"
    /\ \E answer \in ClassificationAnswers, analysis \in AnalysisResponses, db \in DbOutcomes :
          \E r \in {determine_content_type(specialized_agents, memory, analysis, db,
                                          answer.resp)} :
             /\ content_type' = r.val
             /\ memory' = r.memory
             /\ trace' = trace \o r.trace
             /\ pc' = IF r.val = "fallback" THEN "delegate_fallback" ELSE "plan"
    /\ UNCHANGED <<specialized_agents, generated_content, accumulated_content,
                   writers, confidence_score, op, call_in, ret, ncalls, tool_registry,
                   tool_sequence, step_index, accumulated_result, step_outputs,
                   tools_used, out, attempt, delegations>>

\* lines 159-160: yield from self.specialized_agents["fallback"].generate(prompt)
\* and return; a KeyError when no agent is stored under "fallback"
DelegateToFallback ==
    /\ pc = "delegate_fallback"
    /\ IF "fallback" \in specialized_agents
       THEN \E stream \in AgentStreams("fallback") :
               /\ out' = out \o stream
               /\ delegations' = Append(delegations, [agent |-> "fallback", stream |-> stream])
               /\ pc' = "done"
       ELSE /\ pc' = "except"
            /\ UNCHANGED <<out, delegations>>
    /\ UNCHANGED <<specialized_agents, generated_content, accumulated_content,
                   writers, confidence_score, memory, op, call_in, ret, trace, ncalls, tool_registry,
                   tool_sequence, content_type, step_index, accumulated_result,
                   step_outputs, tools_used, attempt>>

\* lines 162-163 and the entry into _execute_tool_sequence at line 171
Plan ==
    /\ pc = "plan"
    /\ \E answer \in GeneratePlanAnswers :
          LET sequence == _get_tool_sequence(answer.resp).val IN
          /\ tool_sequence' = sequence
          /\ pc' = IF Truthy(sequence) THEN "exec" ELSE "direct"
    /\ trace' = Append(trace, "llm:plan")
    /\ step_index' = 0
    /\ accumulated_result' = VNone
    /\ step_outputs' = <<>>
    /\ UNCHANGED <<specialized_agents, generated_content, accumulated_content,
                   writers, confidence_score, memory, op, call_in, ret, ncalls, tool_registry,
                   content_type, tools_used, out, attempt, delegations>>

\* variant: the agent's stream goes out and the attempt raises after it
DirectGeneration_RaisesAfterStream ==
    /\ pc = "direct"
    /\ LET agent == get_agent_for_type(specialized_agents, content_type) IN
       IF agent.exc
       THEN /\ pc' = "except"
            /\ UNCHANGED <<out, delegations>>
       ELSE \E stream \in AgentStreams(agent.val) :
               /\ out' = out \o stream
               /\ delegations' = delegations
               /\ pc' = "except"
    /\ UNCHANGED <<specialized_agents, generated_content, accumulated_content,
                   writers, confidence_score, memory, op, call_in, ret, trace, ncalls, tool_registry,
                   tool_sequence, content_type, step_index, accumulated_result,
                   step_outputs, tools_used, attempt>>

\* lines 165-168: the agent for the category generates and generate returns
DirectGeneration ==
    /\ pc = "direct"
    /\ LET agent == get_agent_for_type(specialized_agents, content_type) IN
       IF agent.exc
       THEN /\ pc' = "except"
            /\ UNCHANGED <<out, delegations>>
       ELSE \E stream \in AgentStreams(agent.val) :
               /\ out' = out \o stream
               /\ delegations' = Append(delegations, [agent |-> agent.val, stream |-> stream])
               /\ pc' = "done"
    /\ UNCHANGED <<specialized_agents, generated_content, accumulated_content,
                   writers, confidence_score, memory, op, call_in, ret, trace, ncalls, tool_registry,
                   tool_sequence, content_type, step_index, accumulated_result,
                   step_outputs, tools_used, attempt>>

\* lines 174-177: the attempt raised; the next attempt starts, or after the last
\* one the fallback agent generates (a KeyError there leaves generate)
HandleFailure ==
    /\ pc = "except"
    /\ trace' = Append(trace, "attempt failed")
    /\ IF attempt = max_retries - 1
       THEN /\ IF "fallback" \in specialized_agents
               THEN \E stream \in AgentStreams("fallback") :
                       /\ out' = out \o stream
                       /\ delegations' =
                             Append(delegations, [agent |-> "fallback", stream |-> stream])
                       /\ pc' = "done"
               ELSE /\ pc' = "raised"
                    /\ UNCHANGED <<out, delegations>>
            /\ UNCHANGED attempt
       ELSE /\ attempt' = attempt + 1
            /\ pc' = "classify"
            /\ UNCHANGED <<out, delegations>>
    /\ UNCHANGED <<specialized_agents, generated_content, accumulated_content,
                   writers, confidence_score, memory, op, call_in, ret, ncalls, tool_registry,
                   tool_sequence, content_type, step_index, accumulated_result,
                   step_outputs, tools_used>>

Next ==
    \/ GenerateCall
    \/ Classify
    \/ DelegateToFallback
    \/ Plan
    \/ DirectGeneration
    \/ ExecuteStep
    \/ ExecuteReturn
    \/ HandleFailure

Spec == Init /\ [][Next]_vars

\* the attempts of the run that have raised
FailedAttempts == Cardinality({i \in 1..Len(trace) : trace[i] = "attempt failed"})

PlanningCalls == Cardinality({i \in 1..Len(trace) : trace[i] = "llm:plan"})

\* C3: every completed run of generate has emitted at least one chunk
\* (content or error) when its stream ends, whatever the category, the plan and
\* the outcome of the plan's steps.
C3_CompletedRunEmitsAChunk ==
    (op = "generate" /\ pc = "done") => Len(out) >= 1

\* C4: when classification resolves to fallback, generate emits exactly the
\* chunks of the fallback agent's generate in the same order, makes no planning
\* LLM call, invokes no registry tool, and ends without a further attempt.
C4_FallbackIsDelegatedVerbatim ==
    (op = "generate" /\ content_type = "fallback") =>
        /\ pc \in {"delegate_fallback", "done"}
        /\ attempt = 0 /\ FailedAttempts = 0
        /\ PlanningCalls = 0
        /\ tools_used = <<>>
        /\ (pc = "done" =>
              /\ Len(delegations) = 1
              /\ delegations[1].agent = "fallback"
              /\ out = delegations[1].stream)

\* C5: when classification resolves to a non-fallback category, a run whose
\* plan is empty emits exactly the chunks of the generate of the agent
\* registered for that category and executes no tool sequence, and a run whose
\* plan is non-empty executes the sequence to its end and calls no agent's
\* generate.
C5_EmptyPlanDelegatesElseExecutes ==
    (op = "generate" /\ content_type \notin {"fallback", "none"}) =>
        /\ (pc = "exec" => Truthy(tool_sequence) /\ delegations = <<>>)
        /\ (pc = "direct" => ~Truthy(tool_sequence) /\ tools_used = <<>>)
        /\ (pc = "done" =>
              IF ~Truthy(tool_sequence)
              THEN /\ Len(delegations) = 1
                   /\ delegations[1].agent = content_type
                   /\ out = delegations[1].stream
                   /\ tools_used = <<>>
                   /\ step_index = 0
              ELSE /\ delegations = <<>>
                   /\ step_index = Len(tool_sequence.items)
                   /\ \A i \in 1..Len(out) : out[i].type = content_type)

\* a run classified as twitter whose plan came back empty has ended with the
\* chunks of the twitter agent's generate
C5_WitnessDirectTwitter ==
    /\ op = "generate" /\ pc = "done"
    /\ content_type = "twitter"
    /\ PlanningCalls = 1
    /\ ~Truthy(tool_sequence)
    /\ Len(delegations) = 1 /\ delegations[1].agent = "twitter"
    /\ Len(out) = 1 /\ out = delegations[1].stream

\* C6: generate runs at most max_retries attempts, attempt k+1 starts only
\* when attempt k raised, and after the last failed attempt generate delegates
\* once to the fallback agent and ends.
C6_BoundedAttemptsThenOneDelegation ==
    op = "generate" =>
        /\ attempt < max_retries
        /\ attempt <= FailedAttempts
        /\ FailedAttempts <= max_retries
        /\ (FailedAttempts = max_retries =>
              /\ pc = "done"
              /\ Len(delegations) = 1
              /\ delegations[1].agent = "fallback")

\* C7: after the last attempt has failed, the terminal recovery never raises
\* to the caller of generate: the fallback agent's stream is emitted or, the
\* fallback agent being unavailable or failing, exactly one error chunk, and
\* the stream ends.
C7_TerminalRecoveryDoesNotRaise ==
    (op = "generate" /\ FailedAttempts = max_retries) =>
        /\ pc # "raised"
        /\ \/ \E d \in 1..Len(delegations) :
                 delegations[d].agent = "fallback" /\ out = delegations[d].stream
           \/ (Len(out) = 1 /\ out[1].key = "error")

-----------------------------------------------------------------------------
(* Specification SpecPerformance: calls of _update_agent_performance on one agent *)

\* updates of an agent's score explored
MaxUpdates == 11

InitPerformance ==
    /\ specialized_agents \in Compositions
    /\ memory = <<>>
    /\ op = "idle"
    /\ \E a \in {"thesis", "serper"}, db \in {"ok", "insert_fails"} :
          call_in = [agent |-> a, success |-> FALSE, db |-> db]
    /\ ret = NoRet
    /\ trace = <<>>
    /\ ncalls = 0
    /\ Constructed

\* one call of SuperAgent._update_agent_performance(agent, success), on the
\* agent and with the database (in service or not) of the behaviour
UpdateAgentPerformanceCall ==
    /\ ncalls < MaxUpdates
    /\ \E success \in BOOLEAN :
          \E r \in {_update_agent_performance(confidence_score, memory, call_in.agent,
                                              success, call_in.db)} :
             /\ confidence_score' = r.scores
             /\ memory' = r.memory
             /\ call_in' = [call_in EXCEPT !.success = success]
    /\ op' = "_update_agent_performance"
    /\ ncalls' = ncalls + 1
    /\ UNCHANGED <<specialized_agents, generated_content, accumulated_content,
                   writers, ret, trace, tool_registry, exec_vars>>

NextPerformance == UpdateAgentPerformanceCall

SpecPerformance == InitPerformance /\ [][NextPerformance]_vars

\* C12: an agent's confidence score starts at 0.5 and, after any sequence of
\* _update_agent_performance calls with any mix of success and failure flags,
\* lies in [0.1, 1.0]; a success sets it to min(1.0, score + 0.05), a failure
\* to max(0.1, score - 0.05), and nothing else changes it.
C12_ConfidenceClampedAndStepped ==
    /\ \A a \in DOMAIN confidence_score : confidence_score[a] = InitialConfidence
    /\ [](\A a \in DOMAIN confidence_score :
            MinConfidence <= confidence_score[a] /\ confidence_score[a] <= MaxConfidence)
    /\ [][\A a \in DOMAIN confidence_score :
            \/ confidence_score'[a] = confidence_score[a]
            \/ /\ a = call_in'.agent /\ call_in'.success
               /\ confidence_score'[a] = Min({MaxConfidence, confidence_score[a] + ConfidenceStep})
            \/ /\ a = call_in'.agent /\ ~call_in'.success
               /\ confidence_score'[a] = Max({MinConfidence, confidence_score[a] - ConfidenceStep})]_vars

\* an eleventh success in a row has left the score at 1.0, the database failing
C12_WitnessEleventhSuccess ==
    /\ op = "_update_agent_performance"
    /\ ncalls > 10
    /\ call_in.success /\ call_in.db = "insert_fails"
    /\ memory = <<>>
    /\ confidence_score[call_in.agent] = MaxConfidence

-----------------------------------------------------------------------------
(* Specification SpecMemory: the components that insert agent_memory rows *)

\* inserts of one behaviour explored
MaxAppends == 2

\* DataAnalysisAgent._analyze_text(text): a 'text_analysis' row is inserted and
\* committed, without clean-up; len(text) raising (text is not a string) or the
\* session raising ends in the handler, which returns an error record.  Of the
\* row's content the length is kept.
_analyze_text(mem, text, db) ==
    IF text.ty # "str" \/ db = "insert_fails" THEN mem
    ELSE Append(mem, MemoryRow("text_analysis", [text_length |-> Len(text.s)]))

RECURSIVE Sum(_)
Sum(data) == IF data = <<>> THEN 0 ELSE Head(data) + Sum(Tail(data))

\* DataAnalysisAgent._analyze_numbers(data): fewer than two values raise
\* ValueError inside the try; otherwise a 'numerical_analysis' row is inserted
\* and committed, without clean-up.  Of the row's content the mean is kept.
_analyze_numbers(mem, data, db) ==
    IF Len(data) < 2 \/ db = "insert_fails" THEN mem
    ELSE Append(mem, MemoryRow("numerical_analysis", [mean |-> Sum(data) \div Len(data)]))

\* a store that earlier calls of _update_memory have filled with n rows
Stored(n) == [i \in 1..n |-> MemoryRow("analysis", VNum(i))]

InitMemory ==
    /\ specialized_agents \in Compositions
    /\ memory \in {Stored(0), Stored(RetainedRecords - 1), Stored(RetainedRecords)}
    /\ op = "idle"
    /\ call_in = [db |-> "ok"]
    /\ ret = NoRet
    /\ trace = <<>>
    /\ ncalls = 0
    /\ Constructed

\* SuperAgent._update_memory(entry), as determine_content_type calls it
UpdateMemoryCall ==
    /\ ncalls < MaxAppends
    /\ \E db \in {"ok", "insert_fails", "prune_fails"}, analysis \in AnalysisResponses :
          /\ memory' = _update_memory(memory,
                                      [type |-> "analysis",
                                       content |-> _analyze_task_complexity(analysis)], db)
          /\ call_in' = [db |-> db]
    /\ op' = "_update_memory"
    /\ ncalls' = ncalls + 1
    /\ UNCHANGED <<specialized_agents, generated_content, accumulated_content,
                   writers, confidence_score, ret, trace, tool_registry, exec_vars>>

\* SuperAgent._update_agent_performance(agent, success)
RecordPerformanceCall ==
    /\ ncalls < MaxAppends
    /\ \E agent \in {"thesis", "serper"}, success \in BOOLEAN, db \in {"ok", "insert_fails"} :
          \E r \in {_update_agent_performance(confidence_score, memory, agent, success, db)} :
             /\ confidence_score' = r.scores
             /\ memory' = r.memory
             /\ call_in' = [db |-> db]
    /\ op' = "_update_agent_performance"
    /\ ncalls' = ncalls + 1
    /\ UNCHANGED <<specialized_agents, generated_content, accumulated_content,
                   writers, ret, trace, tool_registry, exec_vars>>

\* the tool dataanalysis_analyze_text
AnalyzeTextCall ==
    /\ ncalls < MaxAppends
    /\ \E text \in {VStr("up up down"), VNone}, db \in {"ok", "insert_fails"} :
          /\ memory' = _analyze_text(memory, text, db)
          /\ call_in' = [db |-> db]
    /\ op' = "_analyze_text"
    /\ ncalls' = ncalls + 1
    /\ UNCHANGED <<specialized_agents, generated_content, accumulated_content,
                   writers, confidence_score, ret, trace, tool_registry, exec_vars>>

\* the tool dataanalysis_analyze_numbers
AnalyzeNumbersCall ==
    /\ ncalls < MaxAppends
    /\ \E data \in {<<>>, <<3>>, <<2, 4>>}, db \in {"ok", "insert_fails"} :
          /\ memory' = _analyze_numbers(memory, data, db)
          /\ call_in' = [db |-> db]
    /\ op' = "_analyze_numbers"
    /\ ncalls' = ncalls + 1
    /\ UNCHANGED <<specialized_agents, generated_content, accumulated_content,
                   writers, confidence_score, ret, trace, tool_registry, exec_vars>>

NextMemory ==
    \/ UpdateMemoryCall
    \/ RecordPerformanceCall
    \/ AnalyzeTextCall
    \/ AnalyzeNumbersCall

SpecMemory == InitMemory /\ [][NextMemory]_vars

\* C13: whichever component inserted the last memory record, once the insert
\* has returned with the database in service no record beyond the 100 most
\* recent remains in the store.
C13_NoMoreThanRetainedRecords ==
    (op # "idle" /\ call_in.db = "ok") => Len(memory) <= RetainedRecords

-----------------------------------------------------------------------------
(* Specification SpecRegistry: calls on a ToolRegistry *)

\* register_tool calls of one behaviour explored
MaxRegistrations == 3

\* owner tags and names registered; thesis + x_generate and thesis_x + generate
\* make the same id
RegistryOwners == {"thesis", "thesis_x"}
RegistryNames == {"generate", "x_generate"}
\* two callables, told apart by the keyword arguments they require
RegistryMethods == {{"topic"}, {"query"}}
RegistryIds == {o \o "_" \o n : o \in RegistryOwners, n \in RegistryNames} \cup {"never"}

\* ToolRegistry.__new__: the first instance starts with no tools
InitRegistry ==
    /\ specialized_agents \in Compositions
    /\ memory = <<>>
    /\ op = "idle"
    /\ call_in = [tool_id |-> ""]
    /\ ret = Returned(VNone)
    /\ trace = <<>>
    /\ ncalls = 0
    /\ tool_registry = <<>>
    /\ pc = "idle"
    /\ tool_sequence = VList(<<>>)
    /\ content_type = "none"
    /\ step_index = 0
    /\ accumulated_result = VNone
    /\ step_outputs = <<>>
    /\ tools_used = <<>>
    /\ out = <<>>
    /\ attempt = 0
    /\ delegations = <<>>
    /\ confidence_score = [a \in specialized_agents \cup {"serper"} |-> InitialConfidence]
    /\ writers = <<>>
    /\ generated_content = <<>>
    /\ accumulated_content = <<>>

\* ToolRegistry.register_tool(name, description, method, parameters, agent_type);
\* trace keeps the calls made
RegisterToolCall ==
    /\ ncalls < MaxRegistrations
    /\ \E name \in RegistryNames, agent_type \in RegistryOwners, method \in RegistryMethods :
          /\ tool_registry' = RegisterTool(tool_registry, name, {"topic"}, method, agent_type)
          /\ call_in' = [tool_id |-> agent_type \o "_" \o name, name |-> name,
                          agent_type |-> agent_type, method |-> method]
          /\ trace' = Append(trace, SharedTool(name, {"topic"}, method, agent_type))
    /\ ret' = Returned(VNone)
    /\ op' = "register_tool"
    /\ ncalls' = ncalls + 1
    /\ UNCHANGED <<specialized_agents, generated_content, accumulated_content,
                   writers, confidence_score, memory, exec_vars>>

\* ToolRegistry.get_tool(tool_id)
GetToolCall ==
    /\ \E tool_id \in RegistryIds :
          /\ ret' = Returned(GetTool(tool_registry, tool_id))
          /\ call_in' = [tool_id |-> tool_id]
    /\ op' = "get_tool"
    /\ UNCHANGED <<specialized_agents, generated_content, accumulated_content,
                   writers, confidence_score, memory, trace, ncalls,
                   tool_registry, exec_vars>>

\* ToolRegistry.get_tools_by_agent(agent_type)
GetToolsByAgentCall ==
    /\ \E agent_type \in RegistryOwners \cup {"never"} :
          /\ ret' = Returned(GetToolsByAgent(tool_registry, agent_type))
          /\ call_in' = [tool_id |-> "", agent_type |-> agent_type]
    /\ op' = "get_tools_by_agent"
    /\ UNCHANGED <<specialized_agents, generated_content, accumulated_content,
                   writers, confidence_score, memory, trace, ncalls,
                   tool_registry, exec_vars>>

NextRegistry ==
    \/ RegisterToolCall
    \/ GetToolCall
    \/ GetToolsByAgentCall

SpecRegistry == InitRegistry /\ [][NextRegistry]_vars

\* C14: registering a tool whose qualified id already exists in the registry
\* with a different callable fails with a duplicate-tool error and leaves the
\* existing descriptor unchanged.
C14_DuplicateRegistrationFails ==
    [][(/\ op' = "register_tool"
        /\ ncalls' = ncalls + 1
        /\ call_in'.tool_id \in DOMAIN tool_registry
        /\ tool_registry[call_in'.tool_id].required # call_in'.method)
       => (ret'.exc /\ tool_registry' = tool_registry)]_vars

\* the registrations made so far under an id, in order
RegisteredUnder(tool_id) ==
    SelectSeq(trace, LAMBDA c : c.agent_type \o "_" \o c.name = tool_id)
LastRegistered(tool_id) == RegisteredUnder(tool_id)[Len(RegisteredUnder(tool_id))]

\* C15: after any sequence of register_tool calls, get_tool(id) returns the
\* descriptor last registered under id = owner_name and None for an id never
\* registered; get_tools_by_agent(owner) returns exactly the registered
\* descriptors whose owner tag is owner.
C15_LookupsReturnLastRegistered ==
    /\ op = "get_tool" =>
          IF RegisteredUnder(call_in.tool_id) = <<>> THEN ~ret.val.found
          ELSE ret.val.found /\ ret.val.tool = LastRegistered(call_in.tool_id)
    /\ op = "get_tools_by_agent" =>
          /\ DOMAIN ret.val =
                {id \in RegistryIds : /\ RegisteredUnder(id) # <<>>
                                      /\ LastRegistered(id).agent_type = call_in.agent_type}
          /\ \A id \in DOMAIN ret.val : ret.val[id] = LastRegistered(id)

\* a lookup of an id registered twice, by two owners with two callables
C15_WitnessRegisteredTwice ==
    /\ op = "get_tool"
    /\ Len(RegisteredUnder(call_in.tool_id)) = 2
    /\ RegisteredUnder(call_in.tool_id)[1].agent_type # RegisteredUnder(call_in.tool_id)[2].agent_type
    /\ RegisteredUnder(call_in.tool_id)[1].required # RegisteredUnder(call_in.tool_id)[2].required
    /\ ret.val.found
    /\ ret.val.tool = RegisteredUnder(call_in.tool_id)[2]

-----------------------------------------------------------------------------
(* Specification SpecAgent: calls of an agent's generate *)

\* the generate of FallbackAgent and of ProductDescriptionAgent for an outcome
\* of their streamed LLM request: a failed request ends in the handler's error
\* chunk; an answered one yields its deltas, and the error chunk if the stream
\* breaks
OverridingGenerate(key, llm, deltas, broken) ==
    IF llm = "fails" THEN StreamedGenerate(key, 0, TRUE)
    ELSE StreamedGenerate(key, IF llm = "ok" THEN deltas ELSE 0, broken)

\* agent.generate(prompt) of the agent under a key: the stream it yields and
\* the attempts it makes; llm[a] is the outcome of the LLM request of attempt a
AgentGenerate(key, llm, deltas, broken) ==
    CASE key \in {"fallback", "product"} ->
            [stream |-> OverridingGenerate(key, llm[1], deltas, broken), attempts |-> 1]
      [] key = "data_analysis" ->
            [stream |-> <<Chunk("data_analysis", "content", Text(400), 0)>>, attempts |-> 1]
      [] OTHER ->
            [stream |-> BaseGenerateFrom(
                            key, [a \in 1..max_retries |-> GenerationToolResult(key, llm[a])], 0),
             attempts |-> AttemptsMade(
                            key, [a \in 1..max_retries |-> GenerationToolResult(key, llm[a])])]

InitAgent ==
    /\ specialized_agents \in Compositions
    /\ memory = <<>>
    /\ op = "idle"
    /\ call_in = [agent |-> "none"]
    /\ ret = NoRet
    /\ trace = <<>>
    /\ ncalls = 0
    /\ Constructed

\* one call of generate on a specialized agent or on the search agent, run to
\* its end
AgentGenerateCall ==
    /\ op = "idle"
    /\ \E key \in specialized_agents \cup {"serper"},
          llm \in [1..max_retries -> LlmOutcomes],
          deltas \in 0..MaxDeltas, broken \in BOOLEAN :
          \E r \in {AgentGenerate(key, llm, deltas, broken)} :
             /\ out' = r.stream
             /\ attempt' = r.attempts
             /\ call_in' = [agent |-> key, llm |-> llm, deltas |-> deltas, broken |-> broken]
    /\ ret' = Returned(VNone)
    /\ op' = "agent_generate"
    /\ UNCHANGED <<specialized_agents, generated_content, accumulated_content,
                   writers, confidence_score, memory, trace, ncalls, tool_registry,
                   pc, tool_sequence, content_type, step_index, accumulated_result,
                   step_outputs, tools_used, delegations>>

NextAgent == AgentGenerateCall

SpecAgent == InitAgent /\ [][NextAgent]_vars

\* C16: every agent's generate stream yields at least one item (content or
\* error) and then ends, and never propagates an exception, for every outcome
\* of the underlying tool or LLM call, an empty result included.
C16_StreamHasATerminalItem ==
    op = "agent_generate" => (~ret.exc /\ Len(out) >= 1)

\* the agents whose generate makes LLM requests
LlmAgents == {"thesis", "twitter", "fallback", "product"}

\* C17: when every LLM request made on behalf of an agent's generate fails,
\* generate makes max_retries (3) attempts, then emits exactly one chunk, which
\* carries an error payload, and no content chunk.
C17_RetriesThenOneErrorChunk ==
    (/\ op = "agent_generate"
     /\ call_in.agent \in LlmAgents
     /\ \A a \in 1..max_retries : call_in.llm[a] = "fails")
    => (/\ attempt = max_retries
        /\ Len(out) = 1
        /\ out[1].key = "error")

-----------------------------------------------------------------------------
(* The search adapter: SerperAgent *)

\* what requests.post and the decoding of its answer come to
\*   transport_error: requests.post raises      non_ok: status outside 2xx
\*   bad_json: response.json() raises           not_object: the JSON is a list
\*   no_organic: an object without 'organic'    organic: an object with it
SearchAnswer(kind, organic) == [kind |-> kind, organic |-> organic]

\* the body shared by _search_scholar and _search_general: nothing is requested
\* without SERPER_API_KEY; a status that is not ok and every exception give []
SearchEndpoint(endpoint, key_set, http) ==
    IF ~key_set THEN [requests |-> <<>>, val |-> VList(<<>>)]
    ELSE [requests |-> <<endpoint>>,
          val |-> CASE http.kind = "organic" -> http.organic
                    [] OTHER -> VList(<<>>)]

_search_scholar(key_set, http) == SearchEndpoint("scholar", key_set, http)
_search_general(key_set, http) == SearchEndpoint("search", key_set, http)

\* search with every kind routed to the general endpoint
search_AlwaysGeneral(search_type, key_set, http) == _search_general(key_set, http)

\* SerperAgent.search(query, search_type)
search(search_type, key_set, http) ==
    IF search_type = "scholar" THEN _search_scholar(key_set, http)
    ELSE _search_general(key_set, http)

\* r.get('title')
Title(r) == IF "title" \in DOMAIN r.fields THEN r.fields["title"] ELSE VNone

\* lines 137-142: input_data is parsed when it is truthy; a text that is not
\* JSON leaves None, a value that is not a string raises TypeError
PreviousResults(input_data) ==
    IF input_data.kind = "none" \/ (input_data.kind = "text" /\ input_data.t = <<>>)
    THEN Returned(VNone)
    ELSE IF input_data.kind = "value" THEN RaisedValue
    ELSE Returned(IF JsonLoads(input_data.t).ok THEN JsonLoads(input_data.t).v ELSE VNone)

\* lines 148-152: the results the response carries; exc when r.get fails on an
\* entry that is not an object or the new results are not a list
CombinedResults(previous, results) ==
    IF Truthy(previous) /\ previous.ty = "list"
    THEN IF \/ results.ty # "list"
            \/ \E k \in 1..Len(previous.items) : previous.items[k].ty # "dict"
            \/ \E k \in 1..Len(results.items) : results.items[k].ty # "dict"
         THEN RaisedValue
         ELSE Returned(VList(
                previous.items
                \o SelectSeq(results.items,
                             LAMBDA r : Title(r) \notin
                                 {Title(previous.items[k]) : k \in 1..Len(previous.items)})))
    ELSE IF results.ty # "list" THEN RaisedValue     \* len(results)
    ELSE Returned(results)

\* lines 155-170: the JSON text of the response, or of the error record
SearchResponse(search_type, combined) ==
    IF combined.exc THEN JsonDumps(VDict([error |-> VStr("error")]))
    ELSE JsonDumps(VDict([query |-> VStr("q"),
                          search_type |-> VStr(search_type),
                          results |-> combined.val,
                          result_count |-> VNum(Len(combined.val.items))]))

\* SerperAgent._generate_search_response(query, search_type, input_data)
_generate_search_response(search_type, input_data, key_set, http) ==
    LET previous == PreviousResults(input_data) IN
    [requests |-> IF previous.exc THEN <<>> ELSE search(search_type, key_set, http).requests,
     val |-> SearchResponse(
                search_type,
                IF previous.exc THEN RaisedValue
                ELSE CombinedResults(previous.val, search(search_type, key_set, http).val))]

-----------------------------------------------------------------------------
(* Specification SpecSearch: calls on the search adapter *)

\* entries of a list of search results explored
MaxResults == 2

\* a search result with a title, one without, and an entry that is no object
SearchResult(title) == VDict([title |-> VStr(title)])
Untitled == VDict([snippet |-> VStr("s")])
ResultLists == {<<>>} \cup SeqsUpTo({SearchResult("a"), SearchResult("b"), Untitled}, MaxResults)

\* the JSON text of a result and of a list of results
ResultJson(r) ==
    IF r.ty # "dict" THEN <<DS(r.s)>>
    ELSE IF "title" \in DOMAIN r.fields
         THEN <<LBrace, DS("title"), Colon, WS, DS(r.fields["title"].s), RBrace>>
         ELSE <<LBrace, DS("snippet"), Colon, WS, DS("s"), RBrace>>
ResultsJson(rs) ==
    <<LBracket>> \o JoinWith([k \in 1..Len(rs) |-> ResultJson(rs[k])], <<Comma, WS>>)
    \o <<RBracket>>

SearchAnswers ==
    {SearchAnswer(k, VNone) :
        k \in {"transport_error", "non_ok", "bad_json", "not_object", "no_organic"}}
    \cup {SearchAnswer("organic", VList(rs)) : rs \in ResultLists}
    \cup {SearchAnswer("organic", VNone)}

SearchTypes == {"scholar", "general", "Scholar", "news"}

\* input_data: absent, an empty text, a text that is not JSON, the JSON text of
\* an object, of a list of results, of a list with an entry that is no
\* object, and a value that is not a text
InputData(kind, t, prior) == [kind |-> kind, t |-> t, prior |-> prior]
InputDatas ==
    {InputData("none", <<>>, <<>>), InputData("text", <<>>, <<>>),
     InputData("text", <<Word("see"), WS, Word("above")>>, <<>>),
     InputData("text", ResultJson(SearchResult("a")), <<>>),
     InputData("text", ResultsJson(<<SearchResult("a"), VStr("x")>>), <<>>),
     InputData("value", <<>>, <<>>)}
    \cup {InputData("list_text", ResultsJson(rs), rs) : rs \in ResultLists}

InitSearch ==
    /\ specialized_agents \in Compositions
    /\ memory = <<>>
    /\ op = "idle"
    /\ call_in = [search_type |-> "none"]
    /\ ret = NoRet
    /\ trace = <<>>
    /\ ncalls = 0
    /\ Constructed

\* SerperAgent.search(query, search_type); trace keeps the endpoints requested
SearchCall ==
    /\ op = "idle"
    /\ \E search_type \in SearchTypes, key_set \in BOOLEAN, http \in SearchAnswers :
          /\ ret' = Returned(search(search_type, key_set, http).val)
          /\ trace' = search(search_type, key_set, http).requests
          /\ call_in' = [search_type |-> search_type, key_set |-> key_set, http |-> http]
    /\ op' = "search"
    /\ UNCHANGED <<specialized_agents, generated_content, accumulated_content,
                   writers, confidence_score, memory, ncalls, tool_registry,
                   exec_vars>>

\* the tool serper_scholar_search: SerperAgent._search_scholar(query, input_data)
SearchScholarCall ==
    /\ op = "idle"
    /\ \E key_set \in BOOLEAN, http \in SearchAnswers :
          /\ ret' = Returned(_search_scholar(key_set, http).val)
          /\ trace' = _search_scholar(key_set, http).requests
          /\ call_in' = [search_type |-> "scholar", key_set |-> key_set, http |-> http]
    /\ op' = "_search_scholar"
    /\ UNCHANGED <<specialized_agents, generated_content, accumulated_content,
                   writers, confidence_score, memory, ncalls, tool_registry,
                   exec_vars>>

\* the tool serper_general_search: SerperAgent._search_general(query, input_data)
SearchGeneralCall ==
    /\ op = "idle"
    /\ \E key_set \in BOOLEAN, http \in SearchAnswers :
          /\ ret' = Returned(_search_general(key_set, http).val)
          /\ trace' = _search_general(key_set, http).requests
          /\ call_in' = [search_type |-> "general", key_set |-> key_set, http |-> http]
    /\ op' = "_search_general"
    /\ UNCHANGED <<specialized_agents, generated_content, accumulated_content,
                   writers, confidence_score, memory, ncalls, tool_registry,
                   exec_vars>>

\* the tool serper_generate: SerperAgent._generate_search_response
GenerateSearchResponseCall ==
    /\ op = "idle"
    /\ \E search_type \in {"scholar", "general"}, input_data \in InputDatas,
          key_set \in BOOLEAN, http \in SearchAnswers :
          \E r \in {_generate_search_response(search_type, input_data, key_set, http)} :
             /\ ret' = Returned(r.val)
             /\ trace' = r.requests
             /\ call_in' = [search_type |-> search_type, key_set |-> key_set, http |-> http,
                             input_data |-> input_data]
    /\ op' = "_generate_search_response"
    /\ UNCHANGED <<specialized_agents, generated_content, accumulated_content,
                   writers, confidence_score, memory, ncalls, tool_registry,
                   exec_vars>>

NextSearch ==
    \/ SearchCall
    \/ SearchScholarCall
    \/ SearchGeneralCall
    \/ GenerateSearchResponseCall

SpecSearch == InitSearch /\ [][NextSearch]_vars

\* the API key is absent, the status is not a success, or the transport or
\* the decoding raised
SearchFailed == ~call_in.key_set \/ call_in.http.kind \notin {"organic", "no_organic"}

\* C18: search, _search_scholar and _search_general never raise; with the API
\* key absent, on a non-success status and on any transport or decoding
\* exception they return an empty list; search sends kind 'scholar' to the
\* scholarly endpoint and every other kind to the general endpoint.
C18_SearchNeverRaisesAndRoutes ==
    op \in {"search", "_search_scholar", "_search_general"} =>
        /\ ~ret.exc
        /\ SearchFailed => ret.val = VList(<<>>)
        /\ ~call_in.key_set => trace = <<>>
        /\ (op = "search" /\ call_in.key_set) =>
              trace = <<IF call_in.search_type = "scholar" THEN "scholar" ELSE "search">>

\* a scholar search whose transport failed has returned the empty list
C18_WitnessScholarTransportError ==
    /\ op = "search"
    /\ call_in.search_type = "scholar" /\ call_in.key_set
    /\ call_in.http.kind = "transport_error"
    /\ trace = <<"scholar">>
    /\ ret = Returned(VList(<<>>))

\* the merged list of a response, and the new results of the call
MergedResults == ret.val.items[1].fields["results"].items
NewResults == IF call_in.key_set THEN call_in.http.organic.items ELSE <<>>

\* C19: for every list of prior results and every list of new results, the
\* merged list of _generate_search_response holds no two entries with the same
\* title; the prior results come first in their order, followed by the new
\* results whose title was not already present, in their order.
C19_MergedResultsHaveDistinctTitles ==
    (/\ op = "_generate_search_response"
     /\ call_in.input_data.kind = "list_text"
     /\ call_in.http.kind = "organic" /\ call_in.http.organic.ty = "list")
    => /\ "results" \in DOMAIN ret.val.items[1].fields
       /\ \A i, j \in 1..Len(MergedResults) :
             i < j => Title(MergedResults[i]) # Title(MergedResults[j])
       /\ MergedResults =
             call_in.input_data.prior
             \o SelectSeq(NewResults,
                          LAMBDA r : Title(r) \notin
                              {Title(call_in.input_data.prior[k]) :
                                  k \in 1..Len(call_in.input_data.prior)})

-----------------------------------------------------------------------------
(* Specification SpecRoute: POST /api/generate *)

\* an event of the response stream: "data: " + json.dumps of an object with the
\* given keys, or the done marker "data: [DONE]"
DataEvent(chunk) == [event |-> "data", keys |-> {"type", chunk.key}, chunk |-> chunk]
ErrorEvent ==
    [event |-> "data", keys |-> {"error"}, chunk |-> Chunk("", "error", VStr("error"), 0)]
DoneEvent == [event |-> "done", keys |-> {}, chunk |-> Chunk("", "", VNone, 0)]

\* the agents whose generate is BaseAgent.generate(prompt, max_retries=3): the
\* call generate(prompt, search_results=...) raises TypeError
InheritsGenerate == {"thesis", "twitter", "financial"}

\* lines 64-74: a chunk with 'content' goes out as an event, any other chunk is
\* logged as invalid
Forwarded(stream) ==
    [k \in 1..Len(SelectSeq(stream, LAMBDA c : c.key = "content")) |->
        DataEvent(SelectSeq(stream, LAMBDA c : c.key = "content")[k])]

\* variant: a chunk with 'content' or with 'error' counts
HasContent_OrError(chunk) == chunk.key \in {"content", "error"}

\* lines 64-67: json.loads(chunk) succeeds and 'content' is in the object
HasContent(chunk) == chunk.key # "not_json" /\ chunk.key = "content"

\* accumulated_content after the whole stream: the content of the chunks that
\* have one, in order
ContentOf(stream) ==
    [k \in 1..Len(SelectSeq(stream, HasContent)) |-> SelectSeq(stream, HasContent)[k].payload]

\* lines 80-89: the GeneratedContent row
ContentEntry(content, type) == [content |-> content, content_type |-> type]

\* lines 59-97, the generator handed to the response: the events it writes for
\* the stream of the agent's generate; an exception anywhere, the call of
\* generate and the commit of the GeneratedContent row included, ends in one
\* event {'error': ...}
RouteGenerate(key, stream, db_ok) ==
    IF key \in InheritsGenerate THEN <<ErrorEvent>>
    ELSE Forwarded(stream) \o <<DoneEvent>> \o (IF db_ok THEN <<>> ELSE <<ErrorEvent>>)

Requests == {"not_json", "no_prompt", "prompt"}
RouteSearchAnswers ==
    {SearchAnswer("transport_error", VNone),
     SearchAnswer("organic", VList(<<SearchResult("a")>>)),
     SearchAnswer("organic", VNone)}

InitRoute ==
    /\ specialized_agents \in Compositions
    /\ memory = <<>>
    /\ op = "idle"
    /\ call_in = [request |-> "none"]
    /\ ret = NoRet
    /\ trace = <<>>
    /\ ncalls = 0
    /\ Constructed

\* a request that is not JSON (415) or carries no prompt (400)
RejectRequest ==
    /\ pc = "idle"
    /\ \E request \in Requests \ {"prompt"} : call_in' = [request |-> request]
    /\ pc' = "rejected"
    /\ op' = "generate_content"
    /\ UNCHANGED <<specialized_agents, generated_content, accumulated_content,
                   writers, confidence_score, memory, ret, trace, ncalls,
                   tool_registry, tool_sequence, content_type, step_index,
                   accumulated_result, step_outputs, tools_used, out, attempt, delegations>>

\* lines 35-57 and 99-111 for a request with a prompt: the category, the agent
\* and the search results are determined and the streamed response is returned;
\* len(search_results) raising ends in the 500 answer
AcceptRequest ==
    /\ pc = "idle"
    /\ \E answer \in ClassificationAnswers, analysis \in AnalysisResponses, db \in DbOutcomes,
          key_set \in BOOLEAN, http \in RouteSearchAnswers :
          \E r \in {determine_content_type(specialized_agents, memory, analysis, db,
                                          answer.resp)} :
             \E found \in {search(IF r.val \in {"thesis", "data_analysis"}
                                   THEN "scholar" ELSE "general", key_set, http)} :
                /\ memory' = r.memory
                /\ content_type' = r.val
                /\ trace' = r.trace \o found.requests
                /\ call_in' = [request |-> "prompt",
                                agent |-> get_agent_for_type(specialized_agents, r.val).val]
                /\ pc' = IF found.val.ty = "list" THEN "accepted" ELSE "error_500"
    /\ op' = "generate_content"
    /\ UNCHANGED <<specialized_agents, generated_content, accumulated_content,
                   writers, confidence_score, ret, ncalls,
                   tool_registry, tool_sequence, step_index,
                   accumulated_result, step_outputs, tools_used, out, attempt, delegations>>

\* the response is streamed: generate() runs to its end
StreamResponse ==
    /\ pc = "accepted"
    /\ IF call_in.agent \in InheritsGenerate
       THEN /\ out' = RouteGenerate(call_in.agent, <<>>, TRUE)
            /\ delegations' = <<[agent |-> call_in.agent, stream |-> <<>>]>>
            /\ accumulated_content' = <<>>
            /\ UNCHANGED generated_content
       ELSE \E stream \in AgentStreams(call_in.agent), db_ok \in BOOLEAN :
               /\ out' = RouteGenerate(call_in.agent, stream, db_ok)
               /\ delegations' = <<[agent |-> call_in.agent, stream |-> stream]>>
               /\ accumulated_content' = ContentOf(stream)
               /\ generated_content' =
                     IF db_ok
                     THEN Append(generated_content,
                                 ContentEntry(ContentOf(stream), content_type))
                     ELSE generated_content
    /\ pc' = "streamed"
    /\ UNCHANGED <<specialized_agents, writers, confidence_score, memory, op, call_in, ret, trace, ncalls,
                   tool_registry, tool_sequence, content_type, step_index,
                   accumulated_result, step_outputs, tools_used, attempt>>

NextRoute ==
    \/ RejectRequest
    \/ AcceptRequest
    \/ StreamResponse

SpecRoute == InitRoute /\ [][NextRoute]_vars

\* the chunks the client received as events
EventChunks == [k \in 1..Len(SelectSeq(out, LAMBDA e : e.event = "data")) |->
                  SelectSeq(out, LAMBDA e : e.event = "data")[k].chunk]

\* C20: for every accepted POST to the generate endpoint, every event written
\* to the stream carries a type discriminator and either content or error,
\* every chunk the agent yields (content or error) reaches the client as an
\* event, and the last event of the stream is the done marker, nothing being
\* written after it.
C20_StreamOfTypedEventsEndsWithDone ==
    pc = "streamed" =>
        /\ \A i \in 1..Len(out) :
              out[i].event = "data" =>
                 ("type" \in out[i].keys /\ out[i].keys \cap {"content", "error"} # {})
        /\ EventChunks = delegations[1].stream
        /\ Len(out) >= 1 /\ out[Len(out)].event = "done"
        /\ \A i \in 1..(Len(out) - 1) : out[i].event # "done"

-----------------------------------------------------------------------------
(* Order, carry-forward, references, envelopes and errors of a run of
   _execute_tool_sequence (specification SpecExec) *)

\* the positions of stream whose chunk is the error chunk of step k
ErrorChunksOf(k) ==
    {i \in 1..Len(out) : out[i].key = "error" /\ out[i].step = k}

\* step m has been gone through and is over: it was skipped, it recorded its
\* result, or it raised and its error chunk was emitted
Finished(m) ==
    \/ PrepareStep(StepAt(m), tool_registry, VNone, <<>>).kind = "skip"
    \/ m \in DOMAIN step_outputs
    \/ ErrorChunksOf(m) # {}

\* the steps are taken up one at a time, in the order of the sequence
InOrder ==
    /\ step_index <= Len(tool_sequence.items)
    /\ \A i, j \in 1..Len(tools_used) : i < j => tools_used[i].step < tools_used[j].step
    /\ \A i \in 1..Len(tools_used) : tools_used[i].step \in 1..step_index
    /\ DOMAIN step_outputs \subseteq 1..step_index
    /\ \A i \in 1..Len(out) : out[i].step <= step_index
    /\ \A m \in 1..step_index : Finished(m)

\* one iteration handles the step after the last one handled, and only it
OneStepAtATime ==
    (pc = "exec" /\ pc' = "exec") =>
        /\ step_index' = step_index + 1
        /\ \A m \in 1..step_index : Finished(m)
        /\ \A i \in 1..Len(tools_used') :
              i > Len(tools_used) => tools_used'[i].step = step_index + 1
        /\ Len(tools_used') <= Len(tools_used) + 1
        /\ DOMAIN step_outputs' \subseteq (DOMAIN step_outputs) \cup {step_index + 1}
        /\ \A m \in DOMAIN step_outputs : step_outputs'[m] = step_outputs[m]

\* C21: within one run of _execute_tool_sequence the steps are processed in
\* strictly increasing index order, each at most once; the preparation and
\* the invocation of step N+1 begin only after step N's call has returned or
\* raised and its result, if any, has been recorded; no two invocations of a
\* run overlap.
C21_StepsInOrderWithoutOverlap ==
    /\ [](op = "_execute_tool_sequence" => InOrder)
    /\ [][OneStepAtATime]_vars

\* a run of three steps has ended in which every step called its tool and
\* recorded its result, in the order 1, 2, 3
C21_WitnessThreeCallsInOrder ==
    /\ pc = "done"
    /\ Len(tool_sequence.items) = 3
    /\ Len(tools_used) = 3
    /\ \A i \in 1..3 : tools_used[i].step = i
    /\ DOMAIN step_outputs = {1, 2, 3}
    /\ Truthy(step_outputs[1]) /\ Truthy(step_outputs[2])

\* the input_data step j was invoked with (step j accepts it and was invoked)
InputDataAt(j) == tools_used[CHOOSE i \in UsedAt(j) : TRUE].parameters["input_data"]

\* the steps gone through that accept input_data and were invoked
InvokedAccepting == {j \in 1..step_index : AcceptsInputData(j) /\ UsedAt(j) # {}}

\* the plan of step j supplies an input_data of its own
SuppliesInputData(j) ==
    /\ HasKey(StepAt(j), "parameters")
    /\ HasKey(StepAt(j).fields["parameters"], "input_data")

\* C22 as stated: every step whose tool declares input_data is invoked with
\* input_data equal to the result of the immediately preceding step, whatever
\* value that step returned (an empty list or an empty string included) and
\* whether or not the plan supplied an input_data, and with None only when it
\* is the first step.
C22_ReceivesPrecedingResult ==
    op = "_execute_tool_sequence" =>
        \A j \in InvokedAccepting :
            /\ "input_data" \in DOMAIN tools_used[CHOOSE i \in UsedAt(j) : TRUE].parameters
            /\ (j = 1 => InputDataAt(j) = VNone)
            /\ ((j - 1) \in DOMAIN step_outputs => InputDataAt(j) = step_outputs[j - 1])
            /\ (InputDataAt(j) = VNone => j = 1)

\* C22 (amended): every step whose tool declares input_data is invoked with
\* input_data equal to the most recent result recorded by an earlier step of
\* the run, whether or not the plan supplied an input_data; it is None when no
\* earlier step has recorded a result and when that result is empty (an empty
\* list, an empty string).
C22_ReceivesLatestResultOrNone ==
    op = "_execute_tool_sequence" =>
        \A j \in InvokedAccepting :
            /\ "input_data" \in DOMAIN tools_used[CHOOSE i \in UsedAt(j) : TRUE].parameters
            /\ InputDataAt(j) = (IF Truthy(LastResultBefore(j)) THEN LastResultBefore(j)
                                 ELSE VNone)

\* a two-step run has ended whose second step supplied an input_data of its
\* own and was invoked with the result of step 1 instead
C22_WitnessGivenInputDataReplaced ==
    /\ pc = "done"
    /\ Len(tool_sequence.items) = 2
    /\ 2 \in InvokedAccepting
    /\ SuppliesInputData(2)
    /\ 1 \in DOMAIN step_outputs /\ Truthy(step_outputs[1])
    /\ InputDataAt(2) = step_outputs[1]
    /\ InputDataAt(2) # StepAt(2).fields["parameters"].fields["input_data"]

\* the parameters the plan gives step j (step j was invoked, so they are a dict)
GivenParams(j) ==
    IF HasKey(StepAt(j), "parameters") THEN StepAt(j).fields["parameters"].fields
    ELSE EmptyFields

\* the parameters of step j that refer to a step, other than an input_data
\* that line 111 replaces afterwards
Referring(j) ==
    {name \in DOMAIN GivenParams(j) :
        /\ GivenParams(j)[name].ty = "str"
        /\ StepRef(GivenParams(j)[name].s) > 0
        /\ ~(name = "input_data" /\ AcceptsInputData(j))}

\* the steps gone through that were invoked
Invoked == {j \in 1..step_index : UsedAt(j) # {}}

\* the value step j was invoked with for its parameter name
ParamAt(j, name) == tools_used[CHOOSE i \in UsedAt(j) : TRUE].parameters[name]

\* C23: a parameter value that refers to step K is replaced by step K's
\* recorded result only when K is an earlier step that completed with a
\* recorded result; a reference to the current step, to a later step, or to a
\* step that was skipped or raised is left as the literal text and does not
\* make the step fail (the referring steps explored call the search tool,
\* which does not raise by itself).
C23_OnlyRecordedEarlierStepsAreSubstituted ==
    op = "_execute_tool_sequence" =>
        /\ \A j \in 1..step_index :
              PrepareStep(StepAt(j), tool_registry, VNone, <<>>).kind = "call" => j \in Invoked
        /\ \A j \in Invoked : \A name \in Referring(j) :
              LET K == StepRef(GivenParams(j)[name].s) IN
              IF K < j /\ K \in DOMAIN step_outputs
              THEN ParamAt(j, name) = step_outputs[K]
              ELSE /\ ParamAt(j, name) = GivenParams(j)[name]
                   /\ ErrorChunksOf(j) = {}
                   /\ j \in DOMAIN step_outputs

\* a three-step run has ended whose first step referred to itself, whose
\* second step raised and whose third step referred to step 2: both references
\* were passed on as text and both steps recorded a result; and a run whose
\* second step referred to a recorded step 1 has its result in place of the text
C23_WitnessReferenceToRaisedStep ==
    /\ pc = "done"
    /\ Len(tool_sequence.items) = 3
    /\ Invoked = {1, 3}
    /\ ErrorChunksOf(2) # {}
    /\ "query" \in Referring(1) /\ ParamAt(1, "query") = VStr("$STEP[1]")
    /\ "query" \in Referring(3) /\ ParamAt(3, "query") = VStr("$STEP[2]")
    /\ DOMAIN step_outputs = {1, 3}

\* what the stated unwrapping allows for a tool result: the data payload of a
\* status/data envelope whatever its type (or the message inside a data
\* record), the message of a message/interpretations envelope, anything else
\* as it is
StatedUnwrappings(result) ==
    IF result.ty # "dict" THEN {result}
    ELSE IF HasKey(result, "status") /\ HasKey(result, "data")
    THEN {result.fields["data"]}
         \cup (IF HasKey(result.fields["data"], "message")
               THEN {result.fields["data"].fields["message"]} ELSE {})
    ELSE IF HasKey(result, "message") /\ HasKey(result, "possible_interpretations")
    THEN {result.fields["message"]}
    ELSE {result}

\* the tool step j called, and the parameters it was called with
ToolAt(j) == tool_registry[tools_used[CHOOSE i \in UsedAt(j) : TRUE].tool_id]
ParamsAt(j) == tools_used[CHOOSE i \in UsedAt(j) : TRUE].parameters

\* C24: a tool result shaped as a status/data envelope is replaced by its data
\* payload and one shaped as a message/interpretations envelope by its
\* message, for every type the payload can have (text, list, record); any
\* other result is recorded unchanged; the unwrapping never makes the step
\* fail: a step whose call was bound either records the unwrapping of a value
\* its tool returned, or its tool itself raised.
C24_UnwrappingNeverFails ==
    op = "_execute_tool_sequence" =>
        \A j \in Invoked :
            Binds(ToolAt(j), ParamsAt(j)) =>
                IF j \in DOMAIN step_outputs
                THEN \E r \in MethodResults(ToolAt(j), j) :
                        ~r.exc /\ step_outputs[j] \in StatedUnwrappings(r.val)
                ELSE \E r \in MethodResults(ToolAt(j), j) : r.exc

\* step j, gone through, was neither skipped nor recorded a result: it raised
RaisedAt(j) ==
    /\ PrepareStep(StepAt(j), tool_registry, VNone, <<>>).kind # "skip"
    /\ j \notin DOMAIN step_outputs

\* step j cannot but raise: it is no dict, its tool_id is unhashable, its
\* parameters are no dict, or the call does not bind
MustRaise(j) ==
    \/ PrepareStep(StepAt(j), tool_registry, VNone, <<>>).kind = "raise"
    \/ (j \in Invoked /\ ~Binds(ToolAt(j), ParamsAt(j)))

ErrorChunks(stream) == Cardinality({i \in 1..Len(stream) : stream[i].key = "error"})

\* every step gone through was skipped, recorded its result, or raised; a
\* step that raised has exactly one error chunk, which carries its index, and
\* no result; no other step has an error chunk; the carried-forward result is
\* the last one recorded; the run ends normally after the last step
ErrorsArePerStep ==
    /\ pc \in {"exec", "done"}
    /\ (pc = "done" => step_index = Len(tool_sequence.items))
    /\ \A j \in 1..step_index :
          /\ Cardinality(ErrorChunksOf(j)) = (IF RaisedAt(j) THEN 1 ELSE 0)
          /\ (MustRaise(j) => RaisedAt(j))
    /\ ErrorChunks(out) = Cardinality({j \in 1..step_index : RaisedAt(j)})
    /\ accumulated_result = LastResultBefore(step_index + 1)

\* an iteration that emits an error chunk changes neither the recorded results
\* nor the carried-forward result, and the loop goes on
RaisingStepChangesNothing ==
    (pc = "exec" /\ ErrorChunks(out') > ErrorChunks(out)) =>
        /\ out' = Append(out, StepErrorChunk(content_type, step_index + 1))
        /\ step_outputs' = step_outputs
        /\ accumulated_result' = accumulated_result
        /\ step_index' = step_index + 1
        /\ pc' = "exec"

\* C25: a step of _execute_tool_sequence that raises emits exactly one error
\* chunk carrying that step's index, records no result for it and leaves the
\* carried-forward result unchanged; the run goes on with the next step and
\* never raises to its caller; the error chunks of a run number the steps that
\* raised.
C25_OneErrorChunkPerRaisingStep ==
    /\ [](op = "_execute_tool_sequence" => ErrorsArePerStep)
    /\ [][RaisingStepChangesNothing]_vars

\* a three-step run has ended whose first and third steps raised and whose
\* second step recorded the result that is still carried forward
C25_WitnessTwoOfThreeRaised ==
    /\ pc = "done"
    /\ Len(tool_sequence.items) = 3
    /\ RaisedAt(1) /\ RaisedAt(3)
    /\ DOMAIN step_outputs = {2}
    /\ accumulated_result = step_outputs[2]
    /\ Len(out) = 2
    /\ out[1].step = 1 /\ out[2].step = 3

-----------------------------------------------------------------------------
(* Performance records of generate (specification Spec) *)

\* the memory records of a kind
RecordsOfKind(mem, kind) == {i \in 1..Len(mem) : mem[i].type = kind}

\* C26: after every top-level attempt of generate the acting agent's
\* confidence score is updated once and one 'performance' memory record is
\* appended: when a run of generate has ended, the store holds one
\* 'performance' record per attempt made, and after a run of a single attempt
\* one agent's score has moved from its initial value.
C26_EveryAttemptIsScoredAndRecorded ==
    (op = "generate" /\ pc \in {"done", "raised"}) =>
        /\ Cardinality(RecordsOfKind(memory, "performance")) = attempt + 1
        /\ (attempt = 0 =>
              \E a \in DOMAIN confidence_score : confidence_score[a] # InitialConfidence)

-----------------------------------------------------------------------------
(* Memory records of determine_content_type (specification SpecClassify) *)

\* C27: every call of determine_content_type appends one 'decision' memory
\* record carrying the resolved category, after the 'analysis' record of the
\* call (and the classification prompt of a later call is given the 'decision'
\* records among the most recent memory records): when a call has returned,
\* the most recent record is a 'decision' holding the returned category and
\* the one before it is the 'analysis'.
C27_DecisionIsRecorded ==
    op = "determine_content_type" =>
        /\ Len(memory) >= 2
        /\ memory[Len(memory)].type = "decision"
        /\ memory[Len(memory)].content = VStr(ret.val)
        /\ memory[Len(memory) - 1].type = "analysis"

\* the positions of an event in the trace of a call
TraceAt(event) == {i \in 1..Len(trace) : trace[i] = event}

\* line 470 comes between the two LLM calls: the analysis is recorded after the
\* analysis call and before the classification call, if that one is issued
AnalysisRecordedBeforeClassifying ==
    /\ Cardinality(TraceAt("memory:analysis")) = 1
    /\ \A i \in TraceAt("llm:analysis"), j \in TraceAt("memory:analysis") : i < j
    /\ \A j \in TraceAt("memory:analysis"), k \in TraceAt("llm:classify") : j < k

\* the record of line 470 for the call that the step makes
AnalysisRecord == MemoryRow("analysis", _analyze_task_complexity(call_in'.analysis))

\* a step is a call of determine_content_type
IsClassifyCall == ncalls' = ncalls + 1 /\ op' = "determine_content_type"

\* the call appends the one 'analysis' record
AppendsAnalysis == IsClassifyCall => memory' = Append(memory, AnalysisRecord)

\* the call appends the one 'analysis' record if the store accepts it
AppendsAnalysisUnlessInsertFails ==
    IsClassifyCall =>
        memory' = (IF call_in'.db.write = "ok" THEN Append(memory, AnalysisRecord)
                   ELSE memory)

-----------------------------------------------------------------------------
(* Specification SpecPrune: concurrent calls of _update_memory.  Each call is
   four steps on the shared table: the row is built and gets its timestamp
   (lines 418-427), the insert is committed (428), the rows beyond the 100 most
   recent are queried (435-439), they are deleted and the deletion committed
   (440-444).  The steps of different calls interleave freely. *)

\* concurrent calls explored
MaxWriters == 2

Writers == 1..MaxWriters

\* the timestamp of a row: the rows of Stored(n) carry 1..n, a new row the
\* time of its construction
Ts(row) == row.content.n

Rows(sq) == {sq[i] : i \in 1..Len(sq)}

NoRow == MemoryRow("none", VNone)

\* a call that has not begun
NotBegun ==
    [pc |-> "start", memory_entry |-> NoRow, order |-> 0, seen |-> <<>>, old_entries |-> <<>>]

\* the table with a committed row, in the order of the timestamps
InsertByTimestamp(mem, row) ==
    SelectSeq(mem, LAMBDA r : Ts(r) < Ts(row)) \o <<row>>
        \o SelectSeq(mem, LAMBDA r : Ts(r) > Ts(row))

\* the table without the rows a call deletes; a row already gone is no error
DeleteRows(mem, old) == SelectSeq(mem, LAMBDA r : r \notin Rows(old))

\* the commits made so far
Commits == Cardinality({w \in Writers : writers[w].order > 0})

InitPrune ==
    /\ specialized_agents \in Compositions
    /\ memory \in {Stored(RetainedRecords - 1), Stored(RetainedRecords)}
    /\ op = "idle"
    /\ call_in = NoCall
    /\ ret = NoRet
    /\ trace = <<>>
    /\ ncalls = 0
    /\ tool_registry = _register_all_agent_tools(specialized_agents)
    /\ pc = "idle"
    /\ tool_sequence = VList(<<>>)
    /\ content_type = "none"
    /\ step_index = 0
    /\ accumulated_result = VNone
    /\ step_outputs = <<>>
    /\ tools_used = <<>>
    /\ out = <<>>
    /\ attempt = 0
    /\ delegations = <<>>
    /\ confidence_score = [a \in specialized_agents \cup {"serper"} |-> InitialConfidence]
    /\ writers = [w \in Writers |-> NotBegun]
    /\ generated_content = <<>>
    /\ accumulated_content = <<>>

\* lines 418-427: AgentMemory(...) and db.session.add; the row gets the time
\* of the clock; an exception ends the call in the handler of line 446.  The
\* calls are numbered in the order in which they begin.
BuildEntry ==
    \E w \in Writers, db \in {"ok", "insert_fails"} :
        /\ writers[w].pc = "start"
        /\ \A v \in 1..(w - 1) : writers[v].pc # "start"
        /\ writers' = [writers EXCEPT ![w] =
              IF db = "ok"
              THEN [@ EXCEPT !.pc = "built",
                             !.memory_entry =
                                 MemoryRow("analysis", VNum(RetainedRecords + ncalls + 1))]
              ELSE [@ EXCEPT !.pc = "done"]]
        /\ ncalls' = ncalls + 1
        /\ op' = "_update_memory"
        /\ UNCHANGED <<specialized_agents, generated_content, accumulated_content,
                   memory, call_in, ret, trace, tool_registry,
                       exec_vars, confidence_score>>

\* line 428: db.session.commit() makes the row visible to every call
CommitEntry ==
    \E w \in Writers :
        /\ writers[w].pc = "built"
        /\ memory' = InsertByTimestamp(memory, writers[w].memory_entry)
        /\ writers' = [writers EXCEPT ![w] = [@ EXCEPT !.pc = "committed",
                                                       !.order = Commits + 1]]
        /\ UNCHANGED <<specialized_agents, generated_content, accumulated_content,
                   op, call_in, ret, trace, ncalls, tool_registry,
                       exec_vars, confidence_score>>

\* lines 435-439: order_by(timestamp.desc()).offset(100).all()
QueryOldEntries ==
    \E w \in Writers :
        /\ writers[w].pc = "committed"
        /\ writers' = [writers EXCEPT ![w] =
              [@ EXCEPT !.pc = "queried",
                        !.seen = memory,
                        !.old_entries = OlderThan(memory, RetainedRecords)]]
        /\ UNCHANGED <<specialized_agents, generated_content, accumulated_content,
                   memory, op, call_in, ret, trace, ncalls,
                       tool_registry, exec_vars, confidence_score>>

\* lines 440-444: db.session.delete of each old entry and commit; when the
\* commit raises nothing is deleted and the handler of line 446 swallows it
DeleteOldEntries ==
    \E w \in Writers, db \in {"ok", "prune_fails"} :
        /\ writers[w].pc = "queried"
        /\ memory' = IF db = "ok" THEN DeleteRows(memory, writers[w].old_entries)
                      ELSE memory
        /\ writers' = [writers EXCEPT ![w] = [@ EXCEPT !.pc = "done"]]
        /\ UNCHANGED <<specialized_agents, generated_content, accumulated_content,
                   op, call_in, ret, trace, ncalls, tool_registry,
                       exec_vars, confidence_score>>

NextPrune == BuildEntry \/ CommitEntry \/ QueryOldEntries \/ DeleteOldEntries

SpecPrune == InitPrune /\ [][NextPrune]_vars

\* the calls that have committed their row
Committed == {w \in Writers : writers[w].order > 0}

\* the row committed last, and the committed row with the latest timestamp,
\* are in the table
LatestRecordSurvives ==
    \A w \in Committed :
        (\/ \A v \in Committed : writers[v].order <= writers[w].order
         \/ \A v \in Committed : Ts(writers[v].memory_entry) <= Ts(writers[w].memory_entry))
            => writers[w].memory_entry \in Rows(memory)

\* a step removes rows only as the deletion of one call, and every row it
\* removes had at least 100 rows more recent than it in the table that call
\* queried, and no row that call saw older than it stays
PrunesOnlyOverflow ==
    \A r \in Rows(memory) \ Rows(memory') :
        \E w \in Writers :
            /\ writers[w].pc = "queried" /\ writers'[w].pc = "done"
            /\ r \in Rows(writers[w].seen)
            /\ Cardinality({x \in Rows(writers[w].seen) : Ts(x) > Ts(r)}) >= RetainedRecords
            /\ \A x \in Rows(writers[w].seen) : Ts(x) < Ts(r) => x \notin Rows(memory')

\* C29: under any interleaving of concurrent _update_memory calls (each one:
\* insert and commit a record, query the records beyond the 100 most recent,
\* delete them, commit), a prune deletes only records that were not among the
\* 100 most recent when it queried, oldest first, so the most recently
\* inserted record is never deleted.
C29_ConcurrentPrunesKeepTheLatest ==
    /\ [](op = "_update_memory" => LatestRecordSurvives)
    /\ [][PrunesOnlyOverflow]_vars

\* the calls have ended after two of them queried the same overflow before
\* either deleted it, the row built first having been committed last; the
\* table is back to 100 rows and holds the new rows
C29_WitnessOverlappingPrunes ==
    /\ \A w \in Writers : writers[w].pc = "done" /\ writers[w].order > 0
    /\ writers[1].order > writers[2].order
    /\ \E v, w \in Writers :
          v # w /\ Rows(writers[v].old_entries) \cap Rows(writers[w].old_entries) # {}
    /\ Len(memory) = RetainedRecords
    /\ \A w \in Writers : writers[w].memory_entry \in Rows(memory)

-----------------------------------------------------------------------------
(* Tool ids of a returned plan (specification SpecPlan) *)

\* the step names a tool that the registry holds
ResolvesInRegistry(step) ==
    /\ step.ty = "dict"
    /\ Get(step, "tool_id").ty = "str"
    /\ GetTool(tool_registry, Get(step, "tool_id").s).found

\* C30: every tool id carried by a step of a plan that the planner returns
\* resolves in the tool registry: planning never hands a step with an
\* unregistered tool id to execution.
C30_PlannedToolsAreRegistered ==
    (op = "_get_tool_sequence" /\ ~ret.exc /\ ret.val.ty = "list") =>
        \A i \in 1..Len(ret.val.items) : ResolvesInRegistry(ret.val.items[i])
-----------------------------------------------------------------------------
(* Specification SpecFrame: requests processed by a constructed orchestrator,
   with lookups of its registry after them *)

\* ids looked up: a registry key, and the agent-level id of the same tool
LookupIds == {"serper_serper_scholar_search", "serper_scholar_search"}

\* self.tool_registry.get_tool(tool_id) on the constructed registry, after a
\* request (during one, line 92 looks the tools up)
LookupToolCall ==
    /\ pc = "done"
    /\ \E tool_id \in LookupIds :
          /\ ret' = Returned(GetTool(tool_registry, tool_id))
          /\ tool_registry' = ToolsAfterGet(tool_registry, tool_id)
          /\ call_in' = [tool_id |-> tool_id]
    /\ op' = "get_tool"
    /\ UNCHANGED <<specialized_agents, generated_content, accumulated_content,
                   writers, confidence_score, memory, trace, ncalls,
                   exec_vars>>

\* self.tool_registry.get_tools_by_agent(agent_type) on the constructed registry
LookupToolsByAgentCall ==
    /\ pc = "done"
    /\ \E agent_type \in {"serper", "never"} :
          /\ ret' = Returned(GetToolsByAgent(tool_registry, agent_type))
          /\ tool_registry' = ToolsAfterGet(tool_registry, "")
          /\ call_in' = [agent_type |-> agent_type]
    /\ op' = "get_tools_by_agent"
    /\ UNCHANGED <<specialized_agents, generated_content, accumulated_content,
                   writers, confidence_score, memory, trace, ncalls,
                   exec_vars>>

NextFrame ==
    \/ GenerateCall
    \/ Classify
    \/ DelegateToFallback
    \/ Plan
    \/ DirectGeneration
    \/ ExecuteStep
    \/ ExecuteReturn
    \/ HandleFailure
    \/ LookupToolCall
    \/ LookupToolsByAgentCall

SpecFrame == Init /\ [][NextFrame]_vars

\* C31: once the orchestrator has been constructed, the mapping of the tool
\* registry is unchanged by determine_content_type, _get_tool_sequence,
\* _execute_tool_sequence, generate, get_tool and get_tools_by_agent: it stays
\* the mapping that _register_all_agent_tools built, no descriptor being added,
\* replaced or removed.
C31_RegistryUnchangedAfterConstruction ==
    /\ [](tool_registry = _register_all_agent_tools(specialized_agents))
    /\ [][tool_registry' = tool_registry]_vars

\* a run of generate that invoked registry tools has ended and a lookup of a
\* registered id has then returned its descriptor
C31_WitnessLookupAfterExecution ==
    /\ pc = "done"
    /\ tools_used # <<>>
    /\ op = "get_tool"
    /\ call_in.tool_id = "serper_serper_scholar_search"
    /\ ret.val.found
    /\ tool_registry # <<>>
-----------------------------------------------------------------------------
(* Specification SpecChunk: what BaseAgent.generate emits for the result of
   its generation tool *)

\* the longest text result explored: two full pieces and one character
MaxTextLen == 2001

\* the agents that inherit BaseAgent.generate
InheritingAgents == {"thesis", "twitter", "financial", "serper"}

\* results of the generation tool: a text of any length up to MaxTextLen, None
\* (TwitterAgent's tool for a null content), an object or a list
ToolResults ==
    {Text(len) : len \in 0..MaxTextLen}
    \cup {VNone, VDict(EmptyFields), VList(<<VNum(1)>>)}

\* lines 229-245 of base_agent.py for an attempt whose tool returned result:
\* the chunks yielded, and in trace the positions of result each was cut from
EmitResultCall ==
    /\ op = "idle"
    /\ \E key \in InheritingAgents, result \in ToolResults :
          /\ out' = ResultChunks(AgentType(key), result)
          /\ trace' = IF result.ty = "str" THEN Slices(result.n) ELSE <<>>
          /\ call_in' = [agent |-> key, result |-> result]
    /\ ret' = Returned(VNone)
    /\ op' = "emit"
    /\ UNCHANGED <<specialized_agents, generated_content, accumulated_content,
                   writers, confidence_score, memory, ncalls, tool_registry,
                   pc, tool_sequence, content_type, step_index, accumulated_result,
                   step_outputs, tools_used, delegations, attempt>>

NextChunk == EmitResultCall

SpecChunk == InitAgent /\ [][NextChunk]_vars

\* the pieces follow one another through the text: the first begins at
\* position 0, each begins where the one before it ends, the last ends at the
\* end of the text
CoversInOrder(slices, len) ==
    /\ slices = <<>> => len = 0
    /\ slices # <<>> => (slices[1].from = 0 /\ slices[Len(slices)].to = len)
    /\ \A k \in 1..(Len(slices) - 1) : slices[k + 1].from = slices[k].to

\* C32: for a text result the content chunks are emitted in order of position,
\* each holds at most chunk_size (1000) characters, and together they are the
\* result exactly; a result that is not a text goes out as exactly one content
\* chunk.
C32_ChunksPartitionTheResult ==
    op = "emit" =>
        IF call_in.result.ty = "str"
        THEN /\ Len(out) = Len(trace)
             /\ \A k \in 1..Len(out) :
                   /\ out[k].key = "content"
                   /\ out[k].type = AgentType(call_in.agent)
                   /\ out[k].payload.ty = "str"
                   /\ out[k].payload.n = trace[k].to - trace[k].from
                   /\ out[k].payload.n >= 1
                   /\ out[k].payload.n <= chunk_size
             /\ CoversInOrder(trace, call_in.result.n)
        ELSE /\ Len(out) = 1
             /\ out[1].key = "content"
             /\ out[1].payload = JsonDumps(call_in.result)

C32_WitnessTwoFullPiecesAndARest ==
    /\ op = "emit"
    /\ call_in.result.ty = "str"
    /\ call_in.result.n = 2 * chunk_size + 1
    /\ Len(out) = 3
    /\ out[3].payload.n = 1
-----------------------------------------------------------------------------
(* Specification SpecStream: the streamed response of POST /api/generate, one
   resumption of its generator at a time *)

\* a chunk that json.loads rejects
NotJson == Chunk("", "not_json", VNone, 0)

\* the streams the handler is given: those of the agent, and those with a
\* chunk that is not JSON before or after them
HandlerStreams(key) ==
    AgentStreams(key)
    \cup {<<NotJson>> \o stream : stream \in AgentStreams(key)}
    \cup {stream \o <<NotJson>> : stream \in AgentStreams(key)}

\* the positions after the last chunk consumed whose chunk has content
ContentAhead(stream, consumed) ==
    {k \in (consumed + 1)..Len(stream) : HasContent(stream[k])}

\* lines 60-62, at the first resumption: accumulated_content = "" and the call
\* agent.generate(prompt, search_results=...), which raises TypeError for an
\* agent whose generate takes no search_results; the handler of line 94
\* yields the error event
BeginStream ==
    /\ pc = "accepted"
    /\ accumulated_content' = <<>>
    /\ step_index' = 0
    /\ IF call_in.agent \in InheritsGenerate
       THEN /\ delegations' = <<[agent |-> call_in.agent, stream |-> <<>>]>>
            /\ out' = <<ErrorEvent>>
            /\ pc' = "at_error"
       ELSE /\ \E stream \in HandlerStreams(call_in.agent) :
                  delegations' = <<[agent |-> call_in.agent, stream |-> stream]>>
            /\ out' = <<>>
            /\ pc' = "running"
    /\ UNCHANGED <<specialized_agents, writers, confidence_score, memory, op, call_in, ret,
                   trace, ncalls, tool_registry, tool_sequence, content_type,
                   accumulated_result, step_outputs, tools_used, attempt,
                   generated_content>>

\* lines 62-77: the loop up to its next yield.  Chunks without content are
\* passed over; the next chunk with content is added to accumulated_content and
\* yielded as an event; when the agent's stream is at its end the done marker
\* is yielded
NextEvent ==
    /\ pc \in {"running", "at_data"}
    /\ IF ContentAhead(delegations[1].stream, step_index) # {}
       THEN \E k \in {Min(ContentAhead(delegations[1].stream, step_index))} :
               /\ accumulated_content' =
                     Append(accumulated_content, delegations[1].stream[k].payload)
               /\ out' = Append(out, DataEvent(delegations[1].stream[k]))
               /\ step_index' = k
               /\ pc' = "at_data"
       ELSE /\ out' = Append(out, DoneEvent)
            /\ step_index' = Len(delegations[1].stream)
            /\ pc' = "at_done"
            /\ UNCHANGED accumulated_content
    /\ UNCHANGED <<specialized_agents, writers, confidence_score, memory, op, call_in, ret,
                   trace, ncalls, tool_registry, tool_sequence, content_type,
                   accumulated_result, step_outputs, tools_used, attempt, delegations,
                   generated_content>>

\* variant: the row is written at any resumption
WriteRecord_Early ==
    /\ pc \in {"at_data", "at_done"}
    /\ generated_content' =
          Append(generated_content, ContentEntry(accumulated_content, content_type))
    /\ pc' = "finished"
    /\ UNCHANGED <<specialized_agents, writers, confidence_score, memory, op, call_in, ret,
                   trace, ncalls, tool_registry, tool_sequence, content_type, step_index,
                   accumulated_result, step_outputs, tools_used, attempt, delegations,
                   out, accumulated_content>>

\* lines 79-92, at the resumption after the done marker: the row is added and
\* committed and the generator ends; a commit that raises leaves no row and
\* the handler of line 94 yields the error event
WriteRecord ==
    /\ pc = "at_done"
    /\ \E db_ok \in BOOLEAN :
          IF db_ok
          THEN /\ generated_content' =
                     Append(generated_content,
                            ContentEntry(accumulated_content, content_type))
               /\ pc' = "finished"
               /\ UNCHANGED out
          ELSE /\ out' = Append(out, ErrorEvent)
               /\ pc' = "at_error"
               /\ UNCHANGED generated_content
    /\ UNCHANGED <<specialized_agents, writers, confidence_score, memory, op, call_in, ret,
                   trace, ncalls, tool_registry, tool_sequence, content_type, step_index,
                   accumulated_result, step_outputs, tools_used, attempt, delegations,
                   accumulated_content>>

\* the resumption after the error event: the generator ends
EndStream ==
    /\ pc = "at_error"
    /\ pc' = "finished"
    /\ UNCHANGED <<specialized_agents, writers, confidence_score, memory, op, call_in, ret,
                   trace, ncalls, tool_registry, tool_sequence, content_type, step_index,
                   accumulated_result, step_outputs, tools_used, attempt, delegations,
                   out, accumulated_content, generated_content>>

\* the client stops consuming: the generator is closed where it is suspended
\* (GeneratorExit is not an Exception, the handler of line 94 lets it pass) or
\* before it was ever resumed
ClientStops ==
    /\ pc \in {"accepted", "at_data", "at_done", "at_error"}
    /\ trace' = Append(trace, pc)
    /\ pc' = "closed"
    /\ UNCHANGED <<specialized_agents, writers, confidence_score, memory, op, call_in, ret,
                   ncalls, tool_registry, tool_sequence, content_type, step_index,
                   accumulated_result, step_outputs, tools_used, attempt, delegations,
                   out, accumulated_content, generated_content>>

NextStream ==
    \/ RejectRequest
    \/ AcceptRequest
    \/ BeginStream
    \/ NextEvent
    \/ WriteRecord
    \/ EndStream
    \/ ClientStops

SpecStream == InitRoute /\ [][NextStream]_vars

\* the content of the events handed to the client that carry content, in order
ForwardedContent ==
    [k \in 1..Len(SelectSeq(out, LAMBDA e : "content" \in e.keys)) |->
        SelectSeq(out, LAMBDA e : "content" \in e.keys)[k].chunk.payload]

\* the row is written at the resumption that follows the done marker, after
\* the whole stream of the agent, with the content forwarded
WrittenAfterDone ==
    generated_content' # generated_content =>
        /\ pc = "at_done"
        /\ out # <<>> /\ out[Len(out)] = DoneEvent
        /\ step_index = Len(delegations[1].stream)
        /\ generated_content' =
              Append(generated_content, ContentEntry(ForwardedContent, content_type))

\* the handler of line 94 has written its event
StreamingRaised == \E i \in 1..Len(out) : out[i] = ErrorEvent

\* C33: for each request at most one generated-content row is written; it is
\* written only after the agent's stream was consumed to its end and the done
\* marker handed to the client, its content is the content of the forwarded
\* events in order, and no row is written when the client stops consuming or
\* when streaming raised.
C33_OneRecordAfterTheDoneMarker ==
    /\ [](Len(generated_content) <= 1)
    /\ [][WrittenAfterDone]_vars
    /\ []((pc = "closed" \/ StreamingRaised) => generated_content = <<>>)

C33_WitnessRecordOfTwoDeltas ==
    /\ pc = "finished"
    /\ Len(generated_content) = 1
    /\ Len(generated_content[1].content) = 2
    /\ Len(delegations[1].stream) = 4
    /\ out[Len(out)] = DoneEvent

\* the client stopped at the done marker: nothing was written
C33_WitnessStoppedAtDoneMarker ==
    /\ pc = "closed"
    /\ out # <<>> /\ out[Len(out)] = DoneEvent
    /\ generated_content = <<>>

\* the chunks of the agent handed to the client as events, in order (the error
\* event of the handler is not a chunk of the agent)
AgentEventChunks ==
    [k \in 1..Len(SelectSeq(out, LAMBDA e : e.event = "data" /\ e # ErrorEvent)) |->
        SelectSeq(out, LAMBDA e : e.event = "data" /\ e # ErrorEvent)[k].chunk]

\* the chunks of the agent consumed so far that are JSON objects with content
ContentChunksConsumed ==
    SelectSeq(SubSeq(delegations[1].stream, 1, step_index),
              LAMBDA c : c.key = "content")

\* C39: the endpoint forwards exactly those chunks of the agent that are JSON
\* objects with a content field, in the order the agent produced them; a chunk
\* that carries only an error field, or is not valid JSON, is neither sent as
\* an event nor added to the stored content.
C39_OnlyContentChunksAreForwarded ==
    delegations # <<>> =>
        /\ AgentEventChunks = ContentChunksConsumed
        /\ accumulated_content =
              [k \in 1..Len(ContentChunksConsumed) |-> ContentChunksConsumed[k].payload]
        /\ \A i \in 1..Len(generated_content) :
              /\ step_index = Len(delegations[1].stream)
              /\ generated_content[i].content = accumulated_content

\* a stream that began with a chunk that is not JSON and ended with an error
\* chunk: its two content chunks and the done marker went out
C39_WitnessMalformedAndErrorDropped ==
    /\ pc = "at_done"
    /\ Len(delegations[1].stream) = 4
    /\ delegations[1].stream[1] = NotJson
    /\ delegations[1].stream[4].key = "error"
    /\ Len(out) = 3
    /\ out[1].chunk = delegations[1].stream[2]
    /\ out[2].chunk = delegations[1].stream[3]
-----------------------------------------------------------------------------
(* Specification SpecRuns: runs of _execute_tool_sequence one after another on
   one orchestrator, and get_tools_used after them *)

\* runs explored
MaxRuns == 2

\* the plans of the runs, which generate passes on when they are not empty: a
\* registered search, a step without tool_id and a step naming an id the
\* registry does not hold
RunSequences ==
    {sequence \in
        SequencesOf({"array"},
                    SeqsUpTo({FullStep("serper_serper_scholar_search", "query"),
                              Element("step", "", {"reason", "parameters", "expected_output"},
                                      "query"),
                              FullStep("serper_scholar_search", "query")},
                             MaxPlanLen)) :
        Truthy(sequence)}

\* _execute_tool_sequence(tool_sequence, content_type) is called on the
\* orchestrator, for the first time or after an earlier run: lines 81-82 set
\* the locals of the run, self.tools_used is not assigned
RunCall ==
    /\ pc \in {"idle", "done"}
    /\ ncalls < MaxRuns
    /\ \E sequence \in RunSequences : tool_sequence' = sequence
    /\ content_type' = "thesis"
    /\ op' = "_execute_tool_sequence"
    /\ pc' = "exec"
    /\ ncalls' = ncalls + 1
    /\ step_index' = 0
    /\ accumulated_result' = VNone
    /\ step_outputs' = <<>>
    /\ out' = <<>>
    /\ UNCHANGED <<specialized_agents, writers, confidence_score, memory, call_in, ret, trace,
                   tool_registry, tools_used, attempt, delegations,
                   generated_content, accumulated_content>>

\* get_tools_used(), lines 311-313: return self.tools_used
GetToolsUsedCall ==
    /\ pc = "done"
    /\ ret' = Returned(tools_used)
    /\ op' = "get_tools_used"
    /\ UNCHANGED <<specialized_agents, writers, confidence_score, memory, call_in, trace, ncalls,
                   tool_registry, exec_vars, generated_content, accumulated_content>>

NextRuns == RunCall \/ ExecuteStep \/ ExecuteReturn \/ GetToolsUsedCall

SpecRuns == InitExec /\ [][NextRuns]_vars

\* C34: get_tools_used returns the tools used in the last execution only:
\* one entry per step of that run whose tool was invoked, in step order, each
\* naming the tool of its step, and no entry of an earlier run.
C34_ToolsUsedAreThoseOfTheLastRun ==
    op = "get_tools_used" =>
        /\ \A i, j \in 1..Len(ret.val) : i < j => ret.val[i].step < ret.val[j].step
        /\ \A i \in 1..Len(ret.val) :
              /\ ret.val[i].step \in 1..Len(tool_sequence.items)
              /\ Get(StepAt(ret.val[i].step), "tool_id") = VStr(ret.val[i].tool_id)
-----------------------------------------------------------------------------
(* The chunks of generate and the attempts they come from *)

\* the positions of generate at which the current attempt has emitted nothing
\* yet: before the call, in classification and planning, before a delegation,
\* in the handler of a failed attempt, and after generate raised
BeforeEmission ==
    {"idle", "classify", "delegate_fallback", "plan", "direct", "except", "raised"}

\* C35: every chunk emitted by generate comes from a single attempt or from the
\* terminal fallback delegation: an attempt that ends in an exception has
\* emitted no chunk, every attempt begins with nothing emitted, and what a
\* delegation emitted is the whole output.
C35_ChunksComeFromOneAttempt ==
    /\ pc \in BeforeEmission => out = <<>>
    /\ Len(delegations) <= 1
    /\ delegations # <<>> => out = delegations[1].stream
    /\ \A i \in 1..Len(out) :
          pc \in {"exec", "done"} /\ delegations = <<>> =>
             (out[i].type = content_type /\ out[i].step <= step_index)

\* the last attempt begins after two that raised: nothing has been emitted
C35_WitnessRetryAfterTwoFailures ==
    /\ pc = "classify"
    /\ attempt = max_retries - 1
    /\ Len(SelectSeq(trace, LAMBDA event : event = "attempt failed")) = 2
    /\ out = <<>>
-----------------------------------------------------------------------------
(* The composition of routes.py *)

\* the request was classified and its agent chosen
Classified == pc \in {"accepted", "streamed", "error_500"}

\* C36: in the composition routes.py builds, whose agent map has no 'fallback'
\* entry, determine_content_type returns fallback for every prompt and every
\* LLM response (the classification request is never made), and the endpoint
\* serves the request with the agent get_agent_for_type returns for an
\* unmapped category, the thesis agent.
C36_RoutesCompositionAlwaysFallsBack ==
    (specialized_agents = RoutesAgents /\ Classified) =>
        /\ content_type = "fallback"
        /\ "llm:classify" \notin {trace[i] : i \in 1..Len(trace)}
        /\ call_in.agent = "thesis"
        /\ call_in.agent = get_agent_for_type(specialized_agents, "poem").val
        /\ \A i \in 1..Len(delegations) : delegations[i].agent = "thesis"

\* a request served in the composition of routes.py
C36_WitnessServedByThesisAgent ==
    /\ specialized_agents = RoutesAgents
    /\ "fallback" \notin specialized_agents
    /\ pc = "streamed"
    /\ content_type = "fallback"
    /\ delegations = <<[agent |-> "thesis", stream |-> <<>>]>>
-----------------------------------------------------------------------------
(* The keys of the constructed registry and the ids of the agents' tools *)

\* the agents whose tools the constructor registers
RegisteringAgents == specialized_agents \cup {"serper"}

\* the ids under which the agents keep their own tools
AgentLevelIds ==
    UNION {{AvailableTools(key)[k].tool_id : k \in 1..Len(AvailableTools(key))} :
              key \in RegisteringAgents}

\* the key of the registry for a tool of the agent under a key of
\* specialized_agents: the owner tag, '_', the agent's id of the tool
RegistryKey(key, tool_id) == AgentType(key) \o "_" \o tool_id

\* C37: each agent tool is registered under owner tag + '_' + the agent's own
\* tool id, which already begins with the agent's type prefix; so for every
\* agent tool the registry key differs from the agent-level id, and get_tool of
\* the agent-level id (serper_scholar_search, for example) returns None.
C37_AgentLevelIdsAreNotRegistryKeys ==
    /\ \A key \in RegisteringAgents :
          \A k \in 1..Len(AvailableTools(key)) :
             LET tool_id == AvailableTools(key)[k].tool_id IN
             /\ StartsWith(tool_id, AgentType(key) \o "_")
             /\ RegistryKey(key, tool_id) \in DOMAIN tool_registry
             /\ tool_registry[RegistryKey(key, tool_id)].name = tool_id
             /\ tool_registry[RegistryKey(key, tool_id)].agent_type = AgentType(key)
             /\ RegistryKey(key, tool_id) # tool_id
             /\ ~GetTool(tool_registry, tool_id).found
    /\ DOMAIN tool_registry =
          UNION {{RegistryKey(key, AvailableTools(key)[k].tool_id) :
                     k \in 1..Len(AvailableTools(key))} : key \in RegisteringAgents}
    /\ (op = "get_tool" /\ call_in.tool_id \in AgentLevelIds) => ~ret.val.found

\* the id the planning prompt recommends was looked up and not found, while
\* the search tool is registered under the doubled prefix
C37_WitnessRecommendedIdNotFound ==
    /\ op = "get_tool"
    /\ call_in.tool_id = "serper_scholar_search"
    /\ call_in.tool_id \in AgentLevelIds
    /\ ~ret.val.found
    /\ "serper_serper_scholar_search" \in DOMAIN tool_registry
-----------------------------------------------------------------------------
(* Specification SpecScore: calls of _update_agent_performance on one agent
   that run concurrently, without synchronization *)

\* calls in flight
MaxUpdaters == 2

Updaters == 1..MaxUpdaters

\* the scores sequential updates lead to from InitialConfidence: the multiples
\* of ConfidenceStep in the range, of which those at and next to the ends of
\* the range and the initial one begin a behaviour
StartingScores ==
    {MinConfidence, MinConfidence + ConfidenceStep, InitialConfidence,
     MaxConfidence - ConfidenceStep, MaxConfidence}

\* a call that has not begun
NotUpdating == [pc |-> "start", success |-> FALSE, seen |-> 0]

InitScore ==
    /\ specialized_agents = RoutesAgents
    /\ memory = <<>>
    /\ op = "idle"
    /\ \E score \in StartingScores :
          /\ call_in = [agent |-> "thesis", score |-> score]
          /\ confidence_score =
                [a \in specialized_agents \cup {"serper"} |->
                    IF a = "thesis" THEN score ELSE InitialConfidence]
    /\ ret = NoRet
    /\ trace = <<>>
    /\ ncalls = 0
    /\ tool_registry = _register_all_agent_tools(specialized_agents)
    /\ pc = "idle"
    /\ tool_sequence = VList(<<>>)
    /\ content_type = "none"
    /\ step_index = 0
    /\ accumulated_result = VNone
    /\ step_outputs = <<>>
    /\ tools_used = <<>>
    /\ out = <<>>
    /\ attempt = 0
    /\ delegations = <<>>
    /\ writers = [w \in Updaters |-> NotUpdating]
    /\ generated_content = <<>>
    /\ accumulated_content = <<>>

\* lines 370-375 or 380: the call begins with its flag and evaluates
\* agent.confidence_score.  The calls are numbered in the order in which they
\* begin.
ReadScore ==
    \E w \in Updaters, success \in BOOLEAN :
        /\ writers[w].pc = "start"
        /\ \A v \in 1..(w - 1) : writers[v].pc # "start"
        /\ writers' = [writers EXCEPT ![w] =
              [pc |-> "read", success |-> success, seen |-> confidence_score[call_in.agent]]]
        /\ op' = "_update_agent_performance"
        /\ UNCHANGED <<specialized_agents, generated_content, accumulated_content,
                       memory, call_in, ret, trace, ncalls, tool_registry, exec_vars,
                       confidence_score>>

\* lines 375 or 380: min or max of the value read and the step is assigned to
\* agent.confidence_score
WriteScore ==
    \E w \in Updaters :
        /\ writers[w].pc = "read"
        /\ confidence_score' =
              [confidence_score EXCEPT
                  ![call_in.agent] = NewConfidence(writers[w].seen, writers[w].success)]
        /\ writers' = [writers EXCEPT ![w] = [@ EXCEPT !.pc = "written"]]
        /\ UNCHANGED <<specialized_agents, generated_content, accumulated_content,
                       memory, op, call_in, ret, trace, ncalls, tool_registry, exec_vars>>

\* lines 386-396: the 'performance' row, with the score the agent has by then,
\* is added and committed; an exception of the session is swallowed
RecordScore ==
    \E w \in Updaters, db \in {"ok", "insert_fails"} :
        /\ writers[w].pc = "written"
        /\ memory' = IF db = "insert_fails" THEN memory
                      ELSE Append(memory,
                                  MemoryRow("performance",
                                            [agent_type |-> ClassName(call_in.agent),
                                             success |-> writers[w].success,
                                             confidence_score |->
                                                 confidence_score[call_in.agent]]))
        /\ writers' = [writers EXCEPT ![w] = [@ EXCEPT !.pc = "done"]]
        /\ ncalls' = ncalls + 1
        /\ UNCHANGED <<specialized_agents, generated_content, accumulated_content,
                       op, call_in, ret, trace, tool_registry, exec_vars, confidence_score>>

NextScore == ReadScore \/ WriteScore \/ RecordScore

SpecScore == InitScore /\ [][NextScore]_vars

RECURSIVE SequentialScores(_, _)
\* the scores the calls of the set lead to from score when they run one after
\* another, in any order
SequentialScores(score, calls) ==
    IF calls = {} THEN {score}
    ELSE UNION {SequentialScores(NewConfidence(score, writers[w].success), calls \ {w}) :
                   w \in calls}

\* C38: under any interleaving of concurrent, unsynchronized calls of
\* _update_agent_performance on the same agent the score lies in [0.1, 1.0] in
\* every reachable state (and so does every value a call has read).
C38_ScoreStaysInRangeUnderInterleaving ==
    /\ \A a \in DOMAIN confidence_score :
          confidence_score[a] >= MinConfidence /\ confidence_score[a] <= MaxConfidence
    /\ \A w \in Updaters :
          writers[w].pc # "start" =>
             (writers[w].seen >= MinConfidence /\ writers[w].seen <= MaxConfidence)

\* a lost update: every call has ended and the score is one that no sequential
\* order of the same calls produces
C38_WitnessLostUpdate ==
    /\ \A w \in Updaters : writers[w].pc = "done"
    /\ confidence_score[call_in.agent] \notin SequentialScores(call_in.score, Updaters)
    /\ confidence_score[call_in.agent] >= MinConfidence
    /\ confidence_score[call_in.agent] <= MaxConfidence

====
